---- MODULE Spec2Model ----
(***************************************************************************)
(* Model of dvrpc/tmc-summarizer: the TMC_File data model                  *)
(* (tmc_summarizer/data_model.py) and the batch run write_summary_file     *)
(* (tmc_summarizer/summarize.py).                                          *)
(*                                                                         *)
(* Time.  Every row of a file carries the survey date of that file, so a   *)
(* datetime is modelled as the number of minutes since 00:00 of the survey *)
(* date (it may be negative: 00:15 - 45 min is 23:30 of the day before).   *)
(* A time of day (datetime.time) is a number of minutes in 0..1439.        *)
(*                                                                         *)
(* Data frames.  A data frame is a record [index, rows]: rows is the       *)
(* sequence of rows in file order, index tells whether the row labels are  *)
(* still datetimes or have been replaced by times of day.  One direction   *)
(* (EB) stands for the four directions, and one movement column (EB_Thru)  *)
(* for the movement columns of a tab; next to it every tab has its         *)
(* crosswalk column: EB_Peds_Xwalk in Cars, EB_Bikes_Xwalk in Heavy         *)
(* Vehicles, EB_Xwalk_Xings in TOTAL.  A row is a function from column      *)
(* names to counts, with its label under "time".                            *)
(***************************************************************************)
EXTENDS Integers, Sequences, FiniteSets, TLC

VARIABLES
    files,                \* the list files_to_process() returned, in processing order
    pc,                   \* position of the running program
    err,                  \* name of the exception that ended the run ("" if none)
    all_tmcs,             \* TMC_File objects built so far
    am_peak_hour_list,    \* per-site AM peak starts, seconds since midnight
    pm_peak_hour_list,
    am_peak_hour_times,   \* per-site AM peak starts, datetimes
    pm_peak_hour_times,
    network,              \* the network peak hour values of write_summary_file
    pass2,                \* number of TMCs the second pass has handled
    tmc_dfs,              \* [am_dict, pm_dict]: tmc_id -> sums of df_total over the network window
    car_dfs,              \* same for df_cars
    heavy_vehicle_for_bikes_dfs,  \* same for df_heavy
    peak_hr_factors,      \* [am_dict, pm_dict]: tmc_id -> network peak hour factor
    heavy_vehicle_dfs,    \* [am_dict, pm_dict]: tmc_id -> percent heavy over the network window
    metadata,             \* the single-row metadata frames collected by the first pass
    detailed_data,        \* the single-row peak frames collected by the first pass
    df_meta,              \* the Summary table
    df_detail,            \* the Detail table
    written,              \* the output files that exist on disk
    query,                \* last get_peak_hour(period) call made by the test case
    sheet,                \* the worksheet handed to a reader under test
    out,                  \* what that reader returned, raised and printed
    folder,               \* the names in the input folder, in the order glob yields them
    listing               \* the locals of files_to_process: the list, the loop position, the prints

\* the lists the first pass fills
first_pass_vars == <<all_tmcs, am_peak_hour_list, pm_peak_hour_list,
                     am_peak_hour_times, pm_peak_hour_times, metadata, detailed_data>>

\* the dicts the second pass fills
second_pass_vars == <<pass2, tmc_dfs, heavy_vehicle_dfs, car_dfs,
                      heavy_vehicle_for_bikes_dfs, peak_hr_factors>>

\* what belongs to the readers called on their own
reader_vars == <<query, sheet, out>>

\* what belongs to files_to_process called on its own
folder_vars == <<folder, listing>>

vars == <<files, pc, err, network, df_meta, df_detail, written,
          first_pass_vars, second_pass_vars, reader_vars, folder_vars>>

----------------------------------------------------------------------------
(* Program constants *)

\* time(hour=12), in minutes
Noon == 720
\* timedelta(minutes=15)
Quarter == 15
\* timedelta(hours=1), in minutes
HourMinutes == 60
\* 3600 seconds added to the median start
HourSeconds == 3600

MinutesPerDay == 24 * 60

(* Bounds of the model *)

\* rows of one data tab in the single-site runs
MaxRows == 4
\* files of one batch
MaxSites == 2
\* files of one batch whose Detail table is followed to the end
MaxDetailSites == 3

----------------------------------------------------------------------------
(* Generic helpers *)

RECURSIVE SumSeq(_)
SumSeq(s) == IF s = <<>> THEN 0 ELSE Head(s) + SumSeq(Tail(s))

RECURSIVE MaxSeq(_)
MaxSeq(s) ==
    IF Len(s) = 1 THEN s[1]
    ELSE LET m == MaxSeq(Tail(s)) IN IF Head(s) >= m THEN Head(s) ELSE m

Column(rows, c) == [i \in 1..Len(rows) |-> rows[i][c]]

\* datetime.time() / index.time: the time of day of a datetime
TimeOf(dt) == dt % MinutesPerDay

\* a dict with one more (or one replaced) key
DictPut(d, k, v) == [x \in (DOMAIN d) \cup {k} |-> IF x = k THEN v ELSE d[x]]

----------------------------------------------------------------------------
(* tmc_summarizer/data_model.py: class TMC_File *)

\* the sum of the cells of one row over a set of columns
RECURSIVE SumCells(_, _)
SumCells(row, cols) ==
    IF cols = {} THEN 0
    ELSE LET c == CHOOSE x \in cols : TRUE
         IN  row[c] + SumCells(row, cols \ {c})

\* df["total_15_min"] = df.iloc[:, :].sum(axis=1): the sum of all columns of
\* the row (time and date have been deleted, the row label is the index)
add_15_min_totals(rows) ==
    [i \in 1..Len(rows) |->
        [total_15_min |-> SumCells(rows[i], (DOMAIN rows[i]) \ {"time"})] @@ rows[i]]

\* RowsBetween with the start of the interval left out
RowsBetween_open(rows, start, end) ==
    SelectSeq(rows, LAMBDA r : r.time > start /\ r.time < end)

\* the rows whose label lies in [start, end)
RowsBetween(rows, start, end) ==
    SelectSeq(rows, LAMBDA r : r.time >= start /\ r.time < end)

\* add_hourly_totals with the end of the interval taken in
add_hourly_totals_closed(rows) ==
    [i \in 1..Len(rows) |->
        LET end   == rows[i].time + Quarter
            start == end - HourMinutes
            inside == SelectSeq(rows, LAMBDA r : r.time >= start /\ r.time <= end)
        IN  [total_hourly |-> SumSeq(Column(inside, "total_15_min"))] @@ rows[i]]

\* for every row: the sum of total_15_min over the rows of the frame whose
\* label lies in [idx + 15 min - 1 h, idx + 15 min)
add_hourly_totals(rows) ==
    [i \in 1..Len(rows) |->
        LET end   == rows[i].time + Quarter
            start == end - HourMinutes
            hourly_total == SumSeq(Column(RowsBetween(rows, start, end), "total_15_min"))
        IN  [total_hourly |-> hourly_total] @@ rows[i]]

\* read_data_tab: the rows of the tab in file order (no sort, no removal of
\* repeated times), indexed by datetime, with both totals added
read_data_tab(tab) ==
    [index |-> "datetime",
     columns |-> IF tab = <<>> THEN {}
                 ELSE ((DOMAIN tab[1]) \ {"time"}) \cup {"total_15_min", "total_hourly"},
     rows |-> add_hourly_totals(add_15_min_totals(tab))]

\* str.upper() on the period texts the callers pass
upper(s) ==
    CASE s \in {"am", "Am", "aM", "AM"} -> "AM"
      [] s \in {"pm", "Pm", "pM", "PM"} -> "PM"
      [] s = "noon" -> "NOON"
      [] OTHER -> s

\* df[["total_hourly"]].idxmax()[0]: the label of the first row, in row
\* order, that holds the largest total_hourly
idxmax(rows) ==
    LET m == MaxSeq(Column(rows, "total_hourly"))
        i == CHOOSE k \in 1..Len(rows) :
                /\ rows[k].total_hourly = m
                /\ \A j \in 1..(k - 1) : rows[j].total_hourly # m
    IN  rows[i].time

NoWindow(kind) == [kind |-> kind, start |-> 0, end |-> 0]

\* get_peak_hour with the 12:00 row counted in the morning
get_peak_hour_noon_am(df_total, period) ==
    LET p  == upper(period)
        df == IF p = "AM"
              THEN SelectSeq(df_total.rows, LAMBDA r : r.time <= Noon)
              ELSE SelectSeq(df_total.rows, LAMBDA r : r.time >= Noon)
    IN  IF p \notin {"AM", "PM"} THEN NoWindow("None")
        ELSE IF df_total.index # "datetime" THEN NoWindow("TypeError")
        ELSE IF df = <<>> THEN NoWindow("ValueError")
        ELSE LET final_15_min == idxmax(df)
                 end   == final_15_min + Quarter
                 start == end - HourMinutes
             IN  [kind |-> "ok", start |-> start, end |-> end]

get_peak_hour(df_total, period) ==
    LET p  == upper(period)
        df == IF p = "AM"
              THEN SelectSeq(df_total.rows, LAMBDA r : r.time < Noon)
              ELSE SelectSeq(df_total.rows, LAMBDA r : r.time >= Noon)
    IN  IF p \notin {"AM", "PM"} THEN NoWindow("None")
        ELSE IF df_total.index # "datetime" THEN NoWindow("TypeError")
        ELSE IF df = <<>> THEN NoWindow("ValueError")
        ELSE LET final_15_min == idxmax(df)
                 end   == final_15_min + Quarter
                 start == end - HourMinutes
             IN  [kind |-> "ok", start |-> start, end |-> end]

\* del df_peak["total_hourly"]; df_peak.sum().to_frame().T: the one-row frame
\* of the column sums of a slice (0 for every column of an empty slice)
ColumnSums(columns, rows) ==
    [c \in columns \ {"total_hourly"} |-> SumSeq(Column(rows, c))]

\* the sum taken over the rows of the day-part only, instead of over every
\* row inside the window
df_peak_hour_part_only(df_total, df, period) ==
    LET w == get_peak_hour(df_total, period)
        inside == RowsBetween(df.rows, w.start, w.end)
    IN  ColumnSums(df.columns,
                   IF upper(period) = "AM"
                   THEN SelectSeq(inside, LAMBDA r : r.time < Noon)
                   ELSE SelectSeq(inside, LAMBDA r : r.time >= Noon))

\* df_peak_hour(df, period), called only after get_peak_hour(period) succeeded
df_peak_hour(df_total, df, period) ==
    LET w == get_peak_hour(df_total, period)
    IN  ColumnSums(df.columns, RowsBetween(df.rows, w.start, w.end))

\* a float cell
NaN == [kind |-> "nan", num |-> 0, den |-> 0]

\* (1 - light / total) * 100 on one cell: pandas divides without raising, so
\* 0 / 0 is nan and x / 0 is inf (1 - inf = -inf); else the exact fraction
\* num / den
pct_heavy_cell(light, total) ==
    IF total # 0 THEN [kind |-> "num", num |-> 100 * (total - light), den |-> total]
    ELSE IF light = 0 THEN NaN
    ELSE [kind |-> "-inf", num |-> 0, den |-> 0]

\* (1 - peak_light / peak_total) * 100 on two one-row frames: the columns are
\* aligned by name, a column that only one frame has is nan
pct_heavy(peak_light, peak_total) ==
    LET both == ((DOMAIN peak_light) \cap (DOMAIN peak_total)) \ {"window"}
        any  == ((DOMAIN peak_light) \cup (DOMAIN peak_total)) \ {"window"}
    IN  [c \in any |-> IF c \in both THEN pct_heavy_cell(peak_light[c], peak_total[c])
                                    ELSE NaN]

\* df_peak_hour_heavy_pct(period)
df_peak_hour_heavy_pct(df_total, df_cars, period) ==
    LET peak_total == df_peak_hour(df_total, df_total, period)
        peak_light == df_peak_hour(df_total, df_cars, period)
    IN  pct_heavy(peak_light, peak_total)

\* the PeakWindow of a site as write_summary_file reads it from the metadata
peak_raw(df_total, period) ==
    LET w == get_peak_hour(df_total, period) IN <<w.start, w.end>>

\* the per-site peak hour factor write_summary_file reads from the metadata:
\* the rolling hourly total at the end of the site's window over 4 times the
\* largest total_15_min of the window
peak_hour_factor_raw(df_total, period) ==
    LET w == get_peak_hour(df_total, period)
        df_peak == RowsBetween(df_total.rows, w.start, w.end)
    IN  IF df_peak = <<>> \/ MaxSeq(Column(df_peak, "total_15_min")) = 0
        THEN [kind |-> "undefined", num |-> 0, den |-> 0]
        ELSE [kind |-> "num",
              num  |-> df_peak[Len(df_peak)].total_hourly,
              den  |-> 4 * MaxSeq(Column(df_peak, "total_15_min"))]

\* peak_hour_text(period): "%H:%M to %H:%M", the times of day of the window
peak_hour_text(df_total, period) ==
    LET w == get_peak_hour(df_total, period)
    IN  <<TimeOf(w.start), "to", TimeOf(w.end)>>

\* TMC_File(filepath): the object, or the exception the constructor raises
TMC_File(file) ==
    LET df_cars  == read_data_tab(file.Cars)
        df_heavy == read_data_tab(file.Heavy)
        df_total == read_data_tab(file.TOTAL)
        am == get_peak_hour(df_total, "AM")
        pm == get_peak_hour(df_total, "PM")
    IN  IF am.kind # "ok" THEN [kind |-> am.kind]
        ELSE IF pm.kind # "ok" THEN [kind |-> pm.kind]
        ELSE [kind        |-> "ok",
              location_id |-> file.location_id,
              df_cars     |-> df_cars,
              df_heavy    |-> df_heavy,
              df_total    |-> df_total,
              am_peak_raw |-> peak_raw(df_total, "AM"),
              pm_peak_raw |-> peak_raw(df_total, "PM"),
              meta        |-> [am_peak |-> peak_hour_text(df_total, "AM"),
                               pm_peak |-> peak_hour_text(df_total, "PM"),
                               am_peak_hour_factor |-> peak_hour_factor_raw(df_total, "AM"),
                               pm_peak_hour_factor |-> peak_hour_factor_raw(df_total, "PM")],
              peak_data   |-> [am_total     |-> df_peak_hour(df_total, df_total, "AM"),
                               am_heavy_pct |-> df_peak_hour_heavy_pct(df_total, df_cars, "AM"),
                               pm_total     |-> df_peak_hour(df_total, df_total, "PM"),
                               pm_heavy_pct |-> df_peak_hour_heavy_pct(df_total, df_cars, "PM")]]

----------------------------------------------------------------------------
(* tmc_summarizer/summarize.py *)

RECURSIVE Insert(_, _)
Insert(x, s) ==
    IF s = <<>> THEN <<x>>
    ELSE IF x <= Head(s) THEN <<x>> \o s
    ELSE <<Head(s)>> \o Insert(x, Tail(s))

RECURSIVE sorted(_)
sorted(s) == IF s = <<>> THEN <<>> ELSE Insert(Head(s), sorted(Tail(s)))

\* statistics.median(data) for a non-empty list of whole seconds that are
\* multiples of 60 (the mean of the two middle values is then whole too)
median(data) ==
    LET d == sorted(data)
        n == Len(d)
    IN  IF n % 2 = 1 THEN d[(n \div 2) + 1]
        ELSE (d[n \div 2] + d[(n \div 2) + 1]) \div 2

\* df.loc[(df.index >= start) & (df.index < end)] once df.index = df.index.time
\* has replaced the labels by times of day (start and end are times of day)
get_df_peak(df, start, end) ==
    SelectSeq(df.rows, LAMBDA r : TimeOf(r.time) >= start /\ TimeOf(r.time) < end)

\* the one-row frame of column sums over the window, with the window it was
\* cut with
get_network_peak_hour_df(df, start, end) ==
    [window |-> <<start, end>>] @@ ColumnSums(df.columns, get_df_peak(df, start, end))

\* df_cars.rename(columns={"EB Peds Xwalk": "EB Xwalk Xings", ...})
cars_copy(df_cars) ==
    LET new(c) == IF c = "EB_Peds_Xwalk" THEN "EB_Xwalk_Xings" ELSE c
        old(c) == IF c = "EB_Xwalk_Xings" /\ "EB_Peds_Xwalk" \in df_cars.columns
                  THEN "EB_Peds_Xwalk" ELSE c
    IN  [df_cars EXCEPT
            !.columns = {new(c) : c \in df_cars.columns},
            !.rows = [i \in 1..Len(df_cars.rows) |->
                        [c \in {new(x) : x \in DOMAIN df_cars.rows[i]} |->
                            df_cars.rows[i][old(c)]]]]

\* df_network_peak_hour_heavy_pct(start, end, df_total, df_cars)
df_network_peak_hour_heavy_pct(start, end, df_total, df_cars) ==
    LET peak_total == get_network_peak_hour_df(df_total, start, end)
        peak_cars  == get_network_peak_hour_df(cars_copy(df_cars), start, end)
    IN  pct_heavy(peak_cars, peak_total)

\* network_peak_hour_factor with the first quarter-hour in place of the largest
network_peak_hour_factor_first(df_peak) ==
    IF df_peak = <<>> THEN [kind |-> "IndexError", num |-> 0, den |-> 0]
    ELSE LET hourlymax == df_peak[Len(df_peak)].total_hourly
             den == 4 * df_peak[1].total_15_min
         IN  IF den # 0 THEN [kind |-> "num", num |-> hourlymax, den |-> den]
             ELSE IF hourlymax = 0 THEN [kind |-> "nan", num |-> 0, den |-> 0]
             ELSE [kind |-> "inf", num |-> hourlymax, den |-> 0]

\* hourlymax / (4 * max(fifteen_min_peaks)).  hourlymax is a numpy scalar
\* (Series.iat), so a zero divisor does not raise: numpy gives nan for 0/0 and
\* inf for x/0 (with a RuntimeWarning).  An empty slice raises IndexError at
\* .iat[-1].
network_peak_hour_factor(df_peak) ==
    IF df_peak = <<>> THEN [kind |-> "IndexError", num |-> 0, den |-> 0]
    ELSE LET fifteen_min_peaks == Column(df_peak, "total_15_min")
             hourlymax == df_peak[Len(df_peak)].total_hourly
             den == 4 * MaxSeq(fifteen_min_peaks)
         IN  IF den # 0 THEN [kind |-> "num", num |-> hourlymax, den |-> den]
             ELSE IF hourlymax = 0 THEN [kind |-> "nan", num |-> 0, den |-> 0]
             ELSE [kind |-> "inf", num |-> hourlymax, den |-> 0]

\* the network peak hour values write_summary_file derives after the first pass
network_peak(am_list, pm_list, am_times, pm_times) ==
    LET am_peak_hr_seconds == median(am_list)
        pm_peak_hr_seconds == median(pm_list)
        am_start == am_times[(Len(am_times) \div 2) + 1]
        pm_start == pm_times[(Len(pm_times) \div 2) + 1]
    IN  [am_peak_hr_seconds |-> am_peak_hr_seconds,
         am_end             |-> am_peak_hr_seconds + HourSeconds,
         pm_peak_hr_seconds |-> pm_peak_hr_seconds,
         pm_end             |-> pm_peak_hr_seconds + HourSeconds,
         am_network_peak_start_time |-> am_start,
         am_network_peak_end_time   |-> am_start + HourMinutes,
         pm_network_peak_start_time |-> pm_start,
         pm_network_peak_end_time   |-> pm_start + HourMinutes]

NoNetwork ==
    [am_peak_hr_seconds |-> 0, am_end |-> 0, pm_peak_hr_seconds |-> 0, pm_end |-> 0,
     am_network_peak_start_time |-> 0, am_network_peak_end_time |-> 0,
     pm_network_peak_start_time |-> 0, pm_network_peak_end_time |-> 0]

\* the window arguments of the second pass
am_window(net) ==
    <<TimeOf(net.am_network_peak_start_time), TimeOf(net.am_network_peak_end_time)>>
pm_window(net) ==
    <<TimeOf(net.pm_network_peak_start_time), TimeOf(net.pm_network_peak_end_time)>>

\* the slices the second pass takes of one TMC
am_df(tmc, net) ==
    get_network_peak_hour_df(tmc.df_total, am_window(net)[1], am_window(net)[2])
pm_df(tmc, net) ==
    get_network_peak_hour_df(tmc.df_total, pm_window(net)[1], pm_window(net)[2])
\* am_cars_df cut with the site's own AM peak window
am_cars_df_own(tmc, net) ==
    get_network_peak_hour_df(tmc.df_cars, TimeOf(tmc.am_peak_raw[1]), TimeOf(tmc.am_peak_raw[2]))

am_cars_df(tmc, net) ==
    get_network_peak_hour_df(tmc.df_cars, am_window(net)[1], am_window(net)[2])
pm_cars_df(tmc, net) ==
    get_network_peak_hour_df(tmc.df_cars, pm_window(net)[1], pm_window(net)[2])
am_heavy_df(tmc, net) ==
    get_network_peak_hour_df(tmc.df_heavy, am_window(net)[1], am_window(net)[2])
pm_heavy_df(tmc, net) ==
    get_network_peak_hour_df(tmc.df_heavy, pm_window(net)[1], pm_window(net)[2])
am_network_peak_hour_factor(tmc, net) ==
    network_peak_hour_factor(
        get_df_peak(tmc.df_total, am_window(net)[1], am_window(net)[2]))
pm_network_peak_hour_factor(tmc, net) ==
    network_peak_hour_factor(
        get_df_peak(tmc.df_total, pm_window(net)[1], pm_window(net)[2]))

\* df.index = df.index.time, done in place on the frames of the TMC
IndexToTime(tmc) ==
    [tmc EXCEPT !.df_total.index = "time",
                !.df_cars.index  = "time",
                !.df_heavy.index = "time"]

EmptyDicts == [am_dict |-> <<>>, pm_dict |-> <<>>]

\* dicts[f"{time}_dict"]
TimeDict(dicts, time) == IF time = "am" THEN dicts.am_dict ELSE dicts.pm_dict

\* a whole number as a float cell
Num(n) == [kind |-> "num", num |-> n, den |-> 1]

\* the frame appended to detailed_data for one timeperiod and dtype:
\* tmc.peak_data[identifier] with the columns inserted up front.  site is the
\* position of the file in the batch (not a column of the frame).
detail_row(tmc, site, timeperiod, dtype) ==
    LET df == IF timeperiod = "am"
              THEN (IF dtype = "total" THEN tmc.peak_data.am_total ELSE tmc.peak_data.am_heavy_pct)
              ELSE (IF dtype = "total" THEN tmc.peak_data.pm_total ELSE tmc.peak_data.pm_heavy_pct)
    IN  [site             |-> site,
         location_id      |-> tmc.location_id,
         dtype            |-> dtype,
         period           |-> timeperiod,
         time             |-> IF timeperiod = "am" THEN tmc.meta.am_peak ELSE tmc.meta.pm_peak,
         peak_hour_factor |-> IF timeperiod = "am" THEN tmc.meta.am_peak_hour_factor
                              ELSE tmc.meta.pm_peak_hour_factor,
         cells            |-> IF dtype = "total" THEN [c \in DOMAIN df |-> Num(df[c])] ELSE df]

\* detail_rows without the heavy_pct frames
detail_rows_total_only(tmc, site) ==
    <<detail_row(tmc, site, "am", "total"), detail_row(tmc, site, "pm", "total")>>

\* the frames one round of the first pass appends to detailed_data:
\* for timeperiod in ["am", "pm"]: for dtype in ["total", "heavy_pct"]
detail_rows(tmc, site) ==
    <<detail_row(tmc, site, "am", "total"), detail_row(tmc, site, "am", "heavy_pct"),
      detail_row(tmc, site, "pm", "total"), detail_row(tmc, site, "pm", "heavy_pct")>>

\* the single-row metadata frame of one TMC
meta_row(tmc, site) ==
    [site |-> site, location_id |-> tmc.location_id,
     am_peak |-> tmc.meta.am_peak, pm_peak |-> tmc.meta.pm_peak]

\* sort_values("location_id", ascending=True); rows with the same id keep
\* their order
RECURSIVE InsertById(_, _)
InsertById(x, s) ==
    IF s = <<>> THEN <<x>>
    ELSE IF x.location_id < Head(s).location_id THEN <<x>> \o s
    ELSE <<Head(s)>> \o InsertById(x, Tail(s))

RECURSIVE sort_values(_)
sort_values(s) ==
    IF s = <<>> THEN <<>>
    ELSE InsertById(s[Len(s)], sort_values(SubSeq(s, 1, Len(s) - 1)))

\* pd.concat(detailed_data): one frame with the union of the columns, nan
\* where a frame does not have the column
concat(frames) ==
    LET columns == UNION {DOMAIN frames[i].cells : i \in 1..Len(frames)}
    IN  [i \in 1..Len(frames) |->
            [frames[i] EXCEPT !.cells =
                [c \in columns |-> IF c \in DOMAIN frames[i].cells
                                   THEN frames[i].cells[c] ELSE NaN]]]

\* the text "<start> to <end>" of the network peak, from the median seconds
network_peak_text(net, time) ==
    IF time = "am" THEN <<net.am_peak_hr_seconds, "to", net.am_end>>
    ELSE <<net.pm_peak_hr_seconds, "to", net.pm_end>>

\* df_detail.loc[condition, col] = value; a column the frame does not have yet
\* is added, nan in the other rows
SetCells(detail, condition(_), cols, value) ==
    [i \in 1..Len(detail) |->
        [detail[i] EXCEPT !.cells =
            [c \in (DOMAIN detail[i].cells) \cup cols |->
                IF c \in cols /\ condition(detail[i]) THEN value
                ELSE IF c \in DOMAIN detail[i].cells THEN detail[i].cells[c]
                ELSE NaN]]]

\* df_detail.loc[condition, "EB U":"total_15_min"] = frame.values: the cells
\* of the slice, column by column (slice and frame have the same columns)
SetSlice(detail, condition(_), slice, frame) ==
    [i \in 1..Len(detail) |->
        IF condition(detail[i])
        THEN [detail[i] EXCEPT !.cells =
                [c \in DOMAIN detail[i].cells |->
                    IF c \in slice THEN frame[c] ELSE detail[i].cells[c]]]
        ELSE detail[i]]

\* update_time_period_totals(key, time)
update_time_period_totals(detail, slice, dfs, key, time) ==
    LET condition(r) == r.period = time /\ r.dtype = "total" /\ r.location_id = key
        frame == TimeDict(dfs, time)[key]
    IN  SetSlice(detail, condition, slice, [c \in slice |-> Num(frame[c])])

\* update_time_period_heavy_vehicles(key, time)
update_time_period_heavy_vehicles(detail, slice, hv_dfs, key, time) ==
    LET condition(r) == r.period = time /\ r.dtype = "heavy_pct" /\ r.location_id = key
    IN  SetSlice(detail, condition, slice, TimeDict(hv_dfs, time)[key])

\* update_peak_hour_factors(key, time)
update_peak_hour_factors(detail, factors, key, time) ==
    [i \in 1..Len(detail) |->
        IF detail[i].period = time /\ detail[i].location_id = key
        THEN [detail[i] EXCEPT !.peak_hour_factor =
                IF detail[i].dtype = "total" THEN TimeDict(factors, time)[key] ELSE Num(0)]
        ELSE detail[i]]

\* update_bike_ped_info(key, time).  bikes and peds are the columns of
\* df_detail that carry the labels "EB Bikes Xwalk" and "EB Peds Xwalk" (a
\* label can name two columns once "EB Xwalk Xings" has been renamed)
update_bike_ped_info(detail, bikes, peds, bike_dfs, ped_dfs, key, time) ==
    LET condition(r)  == r.period = time /\ r.location_id = key /\ r.dtype = "total"
        condition2(r) == r.period = time /\ r.location_id = key /\ r.dtype = "heavy_pct"
        bike == Num(TimeDict(bike_dfs, time)[key]["EB_Bikes_Xwalk"])
        ped  == Num(TimeDict(ped_dfs, time)[key]["EB_Peds_Xwalk"])
        d1 == SetCells(detail, condition, bikes, bike)
        d2 == SetCells(d1, condition2, bikes, Num(0))
        d3 == SetCells(d2, condition, peds, ped)
    IN  SetCells(d3, condition2, peds, Num(0))

\* df_detail[reordered_cols], total_15_min renamed, the second column of a
\* repeated label dropped: of the two "EB Bikes Xwalk" columns the one that was
\* "EB Xwalk Xings" comes first
reordered(detail) ==
    [i \in 1..Len(detail) |->
        [detail[i] EXCEPT !.cells =
            [EB_Thru        |-> detail[i].cells["EB_Thru"],
             EB_Peds_Xwalk  |-> detail[i].cells["EB_Peds_Xwalk"],
             EB_Bikes_Xwalk |-> detail[i].cells["EB_Xwalk_Xings"],
             total_60_min   |-> detail[i].cells["total_15_min"]]]]

----------------------------------------------------------------------------
(* Input files *)

\* the part of a 15-minute count that the Heavy Vehicles tab holds; the Cars
\* tab holds the rest, so that light + heavy = total in every input file
HeavyShare(v) == v \div 4

\* the pedestrians and the bicycles a count row saw in the crosswalk (none
\* when the row does not say)
PedsOf(r) == IF "Peds" \in DOMAIN r THEN r.Peds ELSE 0
BikesOf(r) == IF "Bikes" \in DOMAIN r THEN r.Bikes ELSE 0

\* the workbook <id>_<name>.xls made from the count rows tab: the Cars tab
\* holds the light vehicles and the pedestrians, the Heavy Vehicles tab the
\* heavy vehicles and the bicycles, the TOTAL tab the sums
MkFile(id, tab) ==
    [location_id |-> id,
     tab   |-> tab,
     TOTAL |-> [i \in 1..Len(tab) |->
                  [time |-> tab[i].time, EB_Thru |-> tab[i].EB_Thru,
                   EB_Xwalk_Xings |-> PedsOf(tab[i]) + BikesOf(tab[i])]],
     Cars  |-> [i \in 1..Len(tab) |->
                  [time |-> tab[i].time,
                   EB_Thru |-> tab[i].EB_Thru - HeavyShare(tab[i].EB_Thru),
                   EB_Peds_Xwalk |-> PedsOf(tab[i])]],
     Heavy |-> [i \in 1..Len(tab) |->
                  [time |-> tab[i].time, EB_Thru |-> HeavyShare(tab[i].EB_Thru),
                   EB_Bikes_Xwalk |-> BikesOf(tab[i])]]]

\* single-site runs: any rows, in any order, repeated times included, on the
\* quarter-hours 11:15 .. 12:15
SiteTimes == {Noon + (Quarter * k) : k \in -3..1}
SiteVols == {0, 1}
SiteRowValues == [time : SiteTimes, EB_Thru : SiteVols]

\* the end-to-end scenario: 07:00 10, 07:15 20, 07:30 15, 07:45 25, and one
\* afternoon row
ScenarioAM ==
    <<[time |-> 420, EB_Thru |-> 10], [time |-> 435, EB_Thru |-> 20],
      [time |-> 450, EB_Thru |-> 15], [time |-> 465, EB_Thru |-> 25]>>
ScenarioTab == ScenarioAM \o <<[time |-> Noon + Quarter, EB_Thru |-> 1]>>

\* a count that never ran in the morning
PMOnlyTab == <<[time |-> Noon + Quarter, EB_Thru |-> 1]>>

\* batch runs: one morning row at 11:30 or 11:45 and one afternoon row at
\* 12:15 or 12:30 per site, or the scenario
BatchAMTimes == {Noon - (2 * Quarter), Noon - Quarter}
BatchPMTimes == {Noon + Quarter, Noon + (2 * Quarter)}
BatchAMVols == {0, 4}
BatchPMVols == {0, 1}
BatchTabs ==
    {<<[time |-> a, EB_Thru |-> x], [time |-> p, EB_Thru |-> y]>> :
        a \in BatchAMTimes, x \in BatchAMVols, p \in BatchPMTimes, y \in BatchPMVols}
    \cup {ScenarioTab, PMOnlyTab}

\* batches for the Detail table: two counts with pedestrians and bicycles in
\* the crosswalk on the same quarter-hours, under any location ids
DetailTabs ==
    {<<[time |-> Noon - (2 * Quarter), EB_Thru |-> 4, Peds |-> 1, Bikes |-> 0],
       [time |-> Noon + Quarter,       EB_Thru |-> 1, Peds |-> 0, Bikes |-> 2]>>,
     <<[time |-> Noon - (2 * Quarter), EB_Thru |-> 0, Peds |-> 2, Bikes |-> 1],
       [time |-> Noon + Quarter,       EB_Thru |-> 1, Peds |-> 1, Bikes |-> 0]>>}
DetailIds == {1, 2}

\* what the geocoding service does with a request
GeocodeAnswers == {"ok", "ValueError", "IndexError"}

PeriodInputs == {"AM", "PM", "am", "pM", "noon"}

NoQuery == [period |-> ""] @@ NoWindow("none")

----------------------------------------------------------------------------
(* States and steps *)

NoSheet == <<>>
NoOut == [kind |-> "none"]

InitRun ==
    /\ err = ""
    /\ all_tmcs = <<>>
    /\ am_peak_hour_list = <<>>
    /\ pm_peak_hour_list = <<>>
    /\ am_peak_hour_times = <<>>
    /\ pm_peak_hour_times = <<>>
    /\ metadata = <<>>
    /\ detailed_data = <<>>
    /\ network = NoNetwork
    /\ pass2 = 0
    /\ tmc_dfs = EmptyDicts
    /\ heavy_vehicle_dfs = EmptyDicts
    /\ car_dfs = EmptyDicts
    /\ heavy_vehicle_for_bikes_dfs = EmptyDicts
    /\ peak_hr_factors = EmptyDicts
    /\ df_meta = <<>>
    /\ df_detail = <<>>
    /\ written = {}
    /\ query = NoQuery

\* files_to_process has not been called on its own
NoFolder == <<>>
NoListing == [files |-> <<>>, i |-> 0, printed |-> <<>>]

InitCommon ==
    /\ InitRun
    /\ folder = NoFolder
    /\ listing = NoListing

\* write_summary_file(input_folder) has been called on a folder of files
Init ==
    /\ \E n \in 0..MaxSites : \E t \in [1..n -> BatchTabs] :
          files = [i \in 1..n |-> MkFile(i, t[i])]
    /\ pc = "first_pass"
    /\ sheet = NoSheet
    /\ out = NoOut
    /\ InitCommon

\* write_summary_file(input_folder) on a folder whose file names carry any
\* location ids, the same id twice included
InitDetail ==
    /\ \E n \in 0..MaxDetailSites :
          \E id \in [1..n -> DetailIds] : \E t \in [1..n -> DetailTabs] :
              files = [i \in 1..n |-> MkFile(id[i], t[i])]
    /\ pc = "first_pass"
    /\ sheet = NoSheet
    /\ out = NoOut
    /\ InitCommon

\* the test case of tests/test_tmc.py on one file
InitSite ==
    /\ \E n \in 1..MaxRows : \E tab \in [1..n -> SiteRowValues] :
          files = <<MkFile(1, tab)>>
    /\ pc = "setUpClass"
    /\ sheet = NoSheet
    /\ out = NoOut
    /\ InitCommon

\* seconds = (time.hour * 60 + time.minute) * 60 + time.second
SecondsOf(dt) == TimeOf(dt) * 60

\* one round of "for file in files_to_process(input_folder)"
FirstPass ==
    /\ pc = "first_pass"
    /\ Len(all_tmcs) < Len(files)
    /\ \E site \in {Len(all_tmcs) + 1} : \E tmc \in {TMC_File(files[site])} :
           IF tmc.kind # "ok"
           THEN /\ pc' = "error"
                /\ err' = tmc.kind
                /\ UNCHANGED first_pass_vars
           ELSE /\ metadata' = Append(metadata, meta_row(tmc, site))
                /\ am_peak_hour_list' = Append(am_peak_hour_list, SecondsOf(tmc.am_peak_raw[1]))
                /\ am_peak_hour_times' = Append(am_peak_hour_times, tmc.am_peak_raw[1])
                /\ pm_peak_hour_list' = Append(pm_peak_hour_list, SecondsOf(tmc.pm_peak_raw[1]))
                /\ pm_peak_hour_times' = Append(pm_peak_hour_times, tmc.pm_peak_raw[1])
                /\ detailed_data' = detailed_data \o detail_rows(tmc, site)
                /\ all_tmcs' = Append(all_tmcs, tmc)
                /\ UNCHANGED <<pc, err>>
    /\ UNCHANGED <<files, network, df_meta, df_detail, written,
                   second_pass_vars, reader_vars, folder_vars>>

\* the loop left after its first round already (the network peak hour would
\* then be derived inside the loop)
first_pass_over_early == all_tmcs # <<>>

\* "for file in files_to_process(input_folder)" has handed out every file
first_pass_over == Len(all_tmcs) = Len(files)

\* after the loop: pd.concat of the collected frames (ValueError when there
\* are none), both tables sorted by location_id, then the network peak hour
NetworkPeak ==
    /\ pc = "first_pass"
    /\ first_pass_over
    /\ IF all_tmcs = <<>>
       THEN /\ pc' = "error"
            /\ err' = "ValueError"
            /\ UNCHANGED <<network, df_meta, df_detail>>
       ELSE /\ network' = network_peak(am_peak_hour_list, pm_peak_hour_list,
                                       am_peak_hour_times, pm_peak_hour_times)
            /\ df_meta' =
                 [i \in 1..Len(metadata) |->
                    [am_network_peak |-> network_peak_text(network', "am"),
                     pm_network_peak |-> network_peak_text(network', "pm")]
                    @@ sort_values(metadata)[i]]
            /\ df_detail' = sort_values(concat(detailed_data))
            /\ pc' = "second_pass"
            /\ UNCHANGED err
    /\ UNCHANGED <<files, written, first_pass_vars, second_pass_vars, reader_vars, folder_vars>>

\* one round of "for tmc in all_tmcs"
SecondPass ==
    /\ pc = "second_pass"
    /\ pass2 < Len(all_tmcs)
    /\ LET tmc    == all_tmcs[pass2 + 1]
           tmc_id == tmc.location_id
           am     == am_window(network)
           pm     == pm_window(network)
       IN  \E am_hv_pc \in {df_network_peak_hour_heavy_pct(am[1], am[2], tmc.df_total, tmc.df_cars)},
              pm_hv_pc \in {df_network_peak_hour_heavy_pct(pm[1], pm[2], tmc.df_total, tmc.df_cars)},
              am_phf \in {am_network_peak_hour_factor(tmc, network)},
              pm_phf \in {pm_network_peak_hour_factor(tmc, network)} :
           LET raised == IF am_phf.kind = "IndexError" THEN am_phf.kind
                         ELSE IF pm_phf.kind = "IndexError" THEN pm_phf.kind
                         ELSE ""
           IN
           /\ all_tmcs' = [all_tmcs EXCEPT ![pass2 + 1] = IndexToTime(tmc)]
           /\ tmc_dfs' = [am_dict |-> DictPut(tmc_dfs.am_dict, tmc_id, am_df(tmc, network)),
                          pm_dict |-> DictPut(tmc_dfs.pm_dict, tmc_id, pm_df(tmc, network))]
           /\ heavy_vehicle_dfs' =
                [am_dict |-> DictPut(heavy_vehicle_dfs.am_dict, tmc_id, am_hv_pc),
                 pm_dict |-> DictPut(heavy_vehicle_dfs.pm_dict, tmc_id, pm_hv_pc)]
           /\ IF raised # ""
              THEN /\ pc' = "error"
                   /\ err' = raised
                   /\ UNCHANGED <<pass2, peak_hr_factors, car_dfs, heavy_vehicle_for_bikes_dfs>>
              ELSE /\ peak_hr_factors' =
                        [am_dict |-> DictPut(peak_hr_factors.am_dict, tmc_id, am_phf),
                         pm_dict |-> DictPut(peak_hr_factors.pm_dict, tmc_id, pm_phf)]
                   /\ car_dfs' =
                        [am_dict |-> DictPut(car_dfs.am_dict, tmc_id, am_cars_df(tmc, network)),
                         pm_dict |-> DictPut(car_dfs.pm_dict, tmc_id, pm_cars_df(tmc, network))]
                   /\ heavy_vehicle_for_bikes_dfs' =
                        [am_dict |-> DictPut(heavy_vehicle_for_bikes_dfs.am_dict, tmc_id,
                                             am_heavy_df(tmc, network)),
                         pm_dict |-> DictPut(heavy_vehicle_for_bikes_dfs.pm_dict, tmc_id,
                                             pm_heavy_df(tmc, network))]
                   /\ pass2' = pass2 + 1
                   /\ pc' = IF pass2 + 1 = Len(all_tmcs) THEN "detail" ELSE "second_pass"
                   /\ UNCHANGED err
    /\ UNCHANGED <<files, network, df_meta, df_detail, written,
                   am_peak_hour_list, pm_peak_hour_list, am_peak_hour_times,
                   pm_peak_hour_times, metadata, detailed_data, reader_vars, folder_vars>>

\* the four updates of one key, as the loops over tmc_dfs["am_dict"] and
\* tmc_dfs["pm_dict"] make them (the keys name disjoint rows, so the order of
\* the keys does not matter)
RECURSIVE update_keys(_, _, _, _)
update_keys(detail, slice, keys, time) ==
    IF keys = {} THEN detail
    ELSE LET key == CHOOSE k \in keys : TRUE
             d1 == update_time_period_totals(detail, slice, tmc_dfs, key, time)
             d2 == update_time_period_heavy_vehicles(d1, slice, heavy_vehicle_dfs, key, time)
             d3 == update_peak_hour_factors(d2, peak_hr_factors, key, time)
             d4 == update_bike_ped_info(d3, {"EB_Bikes_Xwalk"}, {"EB_Peds_Xwalk"},
                                        heavy_vehicle_for_bikes_dfs, car_dfs, key, time)
         IN  update_keys(d4, slice, keys \ {key}, time)

\* update_bike_ped_info of every key once more, after "EB Xwalk Xings" has
\* been renamed to "EB Bikes Xwalk"
RECURSIVE update_keys_again(_, _, _)
update_keys_again(detail, keys, time) ==
    IF keys = {} THEN detail
    ELSE LET key == CHOOSE k \in keys : TRUE
             d == update_bike_ped_info(detail, {"EB_Xwalk_Xings", "EB_Bikes_Xwalk"},
                                      {"EB_Peds_Xwalk"},
                                      heavy_vehicle_for_bikes_dfs, car_dfs, key, time)
         IN  update_keys_again(d, keys \ {key}, time)

\* the rows of df_meta whose index label is 1
MetaRowsAt1 == {i \in 1..Len(df_meta) : df_meta[i].location_id = 1}

\* after the second pass: the time column from df_meta.at[1, ...] (KeyError
\* when no site has location id 1; with two such sites .at yields both values
\* and the assignment raises ValueError), then the updates of every key, the
\* renaming and the reordering of the columns
UpdateDetail ==
    /\ pc = "detail"
    /\ IF MetaRowsAt1 = {}
       THEN /\ pc' = "error"
            /\ err' = "KeyError"
            /\ UNCHANGED df_detail
       ELSE IF Cardinality(MetaRowsAt1) > 1
       THEN /\ pc' = "error"
            /\ err' = "ValueError"
            /\ UNCHANGED df_detail
       ELSE LET at1   == df_meta[CHOOSE i \in MetaRowsAt1 : TRUE]
                d0    == [i \in 1..Len(df_detail) |->
                            [df_detail[i] EXCEPT !.time =
                                IF df_detail[i].period = "am"
                                THEN at1.am_network_peak ELSE at1.pm_network_peak]]
                slice == DOMAIN detailed_data[1].cells
                d1    == update_keys(d0, slice, DOMAIN tmc_dfs.am_dict, "am")
                d2    == update_keys(d1, slice, DOMAIN tmc_dfs.pm_dict, "pm")
                d3    == update_keys_again(d2, DOMAIN tmc_dfs.am_dict, "am")
                d4    == update_keys_again(d3, DOMAIN tmc_dfs.pm_dict, "pm")
            IN  /\ df_detail' = reordered(d4)
                /\ pc' = "write"
                /\ UNCHANGED err
    /\ UNCHANGED <<files, network, df_meta, written,
                   first_pass_vars, second_pass_vars, reader_vars, folder_vars>>

\* all_tmcs.sort(key=lambda x: int(x.location_id)): a stable sort
sort_tmcs(tmcs) == sort_values(tmcs)

\* the Summary, Detail and raw data tabs go to the workbook; writer.save()
\* puts the file on disk
WriteWorkbook ==
    /\ pc = "write"
    /\ all_tmcs' = sort_tmcs(all_tmcs)
    /\ written' = written \cup {"xlsx"}
    /\ pc' = "geocode"
    /\ UNCHANGED <<files, err, network, df_meta, df_detail,
                   am_peak_hour_list, pm_peak_hour_list, am_peak_hour_times,
                   pm_peak_hour_times, metadata, detailed_data,
                   second_pass_vars, reader_vars, folder_vars>>

\* "if geocode_helper:" geocode every TMC and write the geojson file.  The
\* Google Maps client raises without an API key or without a connection, and
\* result[0] raises IndexError when the service finds nothing.
Geocode ==
    /\ pc = "geocode"
    /\ \E geocode_helper \in BOOLEAN, answer \in GeocodeAnswers :
          IF ~geocode_helper
          THEN /\ pc' = "done"
               /\ UNCHANGED <<err, written>>
          ELSE IF answer # "ok"
          THEN /\ pc' = "error"
               /\ err' = answer
               /\ UNCHANGED written
          ELSE /\ written' = written \cup {"geojson"}
               /\ pc' = "done"
               /\ UNCHANGED err
    /\ UNCHANGED <<files, network, df_meta, df_detail,
                   first_pass_vars, second_pass_vars, reader_vars, folder_vars>>

Next == FirstPass \/ NetworkPeak \/ SecondPass \/ UpdateDetail \/ WriteWorkbook \/ Geocode

Spec == Init /\ [][Next]_vars

SpecDetail == InitDetail /\ [][Next]_vars

\* test_TMC.setUpClass: TMC_File(path)
setUpClass ==
    /\ pc = "setUpClass"
    /\ \E tmc \in {TMC_File(files[1])} :
           IF tmc.kind # "ok"
           THEN /\ pc' = "error"
                /\ err' = tmc.kind
                /\ UNCHANGED all_tmcs
           ELSE /\ all_tmcs' = <<tmc>>
                /\ pc' = "test"
                /\ UNCHANGED err
    /\ UNCHANGED <<files, network, df_meta, df_detail, written,
                   am_peak_hour_list, pm_peak_hour_list, am_peak_hour_times,
                   pm_peak_hour_times, metadata, detailed_data,
                   second_pass_vars, reader_vars, folder_vars>>

\* test_TMC.test_peak_hour: tmc.get_peak_hour(period)
test_peak_hour ==
    /\ pc = "test"
    /\ \E period \in PeriodInputs :
          query' = [period |-> period] @@ get_peak_hour(all_tmcs[1].df_total, period)
    /\ pc' = "tested"
    /\ UNCHANGED <<files, err, network, df_meta, df_detail, written,
                   first_pass_vars, second_pass_vars, sheet, out, folder_vars>>

NextSite == setUpClass \/ test_peak_hour

SpecSite == InitSite /\ [][NextSite]_vars

(***************************************************************************)
(* The header normalisers: TMC_File.flatten_headers of data_model.py, used *)
(* by read_data_tab, and flatten_headers of business_logic.py, used by     *)
(* web_model.read_data.  A sheet is the sequence of the columns of rows 1  *)
(* and 2 of a tab, each cell either text or blank (NaN).                   *)
(***************************************************************************)

\* the number of columns of a tab
MaxCols == 3

\* a text cell and a blank cell of the header rows
Str(s) == [kind |-> "str", s |-> s]
Blank == [kind |-> "nan"]

\* pd.isna(cell)
isna(cell) == cell.kind = "nan"

\* str.lower() on the labels the sheets hold
lower(s) ==
    CASE s = "Time" -> "time"
      [] s = "U Turns" -> "u turns"
      [] s = "Peds in Crosswalk" -> "peds in crosswalk"
      [] s = "Ped Crossings" -> "ped crossings"
      [] s = "Notes" -> "notes"
      [] s = "Eastbound" -> "eastbound"
      [] s = "North" -> "north"
      [] OTHER -> s

\* data_model.py: the direction table
TMC_File_replacements_level_1 ==
    ("Southbound" :> "SB ") @@ ("Westbound" :> "WB ") @@
    ("Northbound" :> "NB ") @@ ("Eastbound" :> "EB ")

\* data_model.py: the movement table
TMC_File_replacements_level_2 ==
    ("u turns" :> "U") @@ ("left turns" :> "Left") @@
    ("straight through" :> "Thru") @@ ("right turns" :> "Right") @@
    ("ped crossings" :> "Peds Xwalk") @@ ("bikes in crosswalk" :> "Bikes Xwalk") @@
    ("bicycles in crosswalk" :> "Bikes Xwalk") @@ ("time" :> "time") @@
    ("date" :> "date") @@ ("bikes in croswalk" :> "Bikes Xwalk") @@
    ("peds in croswalk" :> "Peds Xwalk") @@ ("crosswalk crossings" :> "Xwalk Xings")

\* business_logic.py: the direction table
replacements_level_1 ==
    ("Southbound" :> "SB ") @@ ("Westbound" :> "WB ") @@
    ("Northbound" :> "NB ") @@ ("Eastbound" :> "EB ")

\* business_logic.py: the movement table
replacements_level_2 ==
    ("u turns" :> "U") @@ ("left turns" :> "Left") @@
    ("straight through" :> "Thru") @@ ("right turns" :> "Right") @@
    ("peds in crosswalk" :> "Peds Xwalk") @@ ("bikes in crosswalk" :> "Bikes Xwalk") @@
    ("time" :> "time") @@ ("bikes in croswalk" :> "Bikes Xwalk") @@
    ("peds in croswalk" :> "Peds Xwalk")

\* headers = [], l1 = "" before the loop over the columns
NoHeaders == [kind |-> "ok", l1 |-> "", headers |-> <<>>, warnings |-> <<>>]

\* print(msg): the label and the words the message uses for the lookup
Warning(label, lookup) == [label |-> label, lookup |-> lookup]

\* data_model.py: one round of "for col in df.columns".  A direction that is
\* not in the table raises KeyError; a blank level-2 cell is a float, which
\* has no lower(), and raises AttributeError.
TMC_File_header_col(acc, cell) ==
    IF acc.kind # "ok" THEN acc
    ELSE IF ~isna(cell.level_1) /\ cell.level_1.s \notin DOMAIN TMC_File_replacements_level_1
    THEN [acc EXCEPT !.kind = "KeyError"]
    ELSE LET l1 == IF isna(cell.level_1) THEN acc.l1
                   ELSE TMC_File_replacements_level_1[cell.level_1.s]
         IN  IF isna(cell.level_2)
             THEN [acc EXCEPT !.kind = "AttributeError", !.l1 = l1]
             ELSE IF lower(cell.level_2.s) \in DOMAIN TMC_File_replacements_level_2
             THEN [acc EXCEPT !.l1 = l1,
                              !.headers = Append(@, l1 \o TMC_File_replacements_level_2[lower(cell.level_2.s)])]
             ELSE [acc EXCEPT !.l1 = l1,
                              !.headers = Append(@, l1 \o cell.level_2.s),
                              !.warnings = Append(@, Warning(cell.level_2.s, "lookup"))]

\* data_model.py: TMC_File.flatten_headers(tabname) on the columns of df
RECURSIVE TMC_File_flatten_headers(_)
TMC_File_flatten_headers(df) ==
    IF df = <<>> THEN NoHeaders
    ELSE TMC_File_header_col(TMC_File_flatten_headers(SubSeq(df, 1, Len(df) - 1)), df[Len(df)])

\* business_logic.py: one round of "for col in df.columns".  A direction that
\* is not in the table is kept raw, with a warning about the level 1 lookup.
header_col(acc, cell) ==
    IF acc.kind # "ok" THEN acc
    ELSE LET known == isna(cell.level_1) \/ cell.level_1.s \in DOMAIN replacements_level_1
             l1 == IF isna(cell.level_1) THEN acc.l1
                   ELSE IF ~known THEN cell.level_1.s
                   ELSE replacements_level_1[cell.level_1.s]
             w1 == IF known THEN acc.warnings
                   ELSE Append(acc.warnings, Warning(cell.level_1.s, "level 1 lookup"))
         IN  IF isna(cell.level_2)
             THEN [acc EXCEPT !.kind = "AttributeError", !.l1 = l1, !.warnings = w1]
             ELSE IF lower(cell.level_2.s) \in DOMAIN replacements_level_2
             THEN [acc EXCEPT !.l1 = l1, !.warnings = w1,
                              !.headers = Append(@, l1 \o replacements_level_2[lower(cell.level_2.s)])]
             ELSE [acc EXCEPT !.l1 = l1,
                              !.headers = Append(@, l1 \o cell.level_2.s),
                              !.warnings = Append(w1, Warning(cell.level_2.s, "level 2 lookup"))]

\* business_logic.py: flatten_headers(input_file, tabname) on the columns of df
RECURSIVE flatten_headers(_)
flatten_headers(df) ==
    IF df = <<>> THEN NoHeaders
    ELSE header_col(flatten_headers(SubSeq(df, 1, Len(df) - 1)), df[Len(df)])

\* the cells of header row 1: blank under a merged cell, a direction of the
\* table, or another text
Level1Cells == {Blank, Str("Eastbound"), Str("North")}

\* the cells of header row 2: blank, a movement of both tables, a movement of
\* one table only, or another text
Level2Cells == {Blank, Str("Time"), Str("U Turns"), Str("Peds in Crosswalk"), Str("Notes")}

HeaderCells == [level_1 : Level1Cells, level_2 : Level2Cells]

\* a tab whose header rows are about to be read
InitHeaders ==
    /\ \E n \in 1..MaxCols : sheet \in [1..n -> HeaderCells]
    /\ files = <<>>
    /\ pc = "headers"
    /\ out = NoOut
    /\ InitCommon

\* data_model.py, read_data_tab: names=self.flatten_headers(tabname)
ReadDataTabHeaders ==
    /\ pc = "headers"
    /\ out' = [by |-> "data_model"] @@ TMC_File_flatten_headers(sheet)
    /\ pc' = IF out'.kind = "ok" THEN "named" ELSE "error"
    /\ err' = IF out'.kind = "ok" THEN err ELSE out'.kind
    /\ UNCHANGED <<files, network, df_meta, df_detail, written,
                   first_pass_vars, second_pass_vars, query, sheet, folder_vars>>

\* web_model.py, read_data: names=flatten_headers(self._filepath, tabname)
ReadDataHeaders ==
    /\ pc = "headers"
    /\ out' = [by |-> "business_logic"] @@ flatten_headers(sheet)
    /\ pc' = IF out'.kind = "ok" THEN "named" ELSE "error"
    /\ err' = IF out'.kind = "ok" THEN err ELSE out'.kind
    /\ UNCHANGED <<files, network, df_meta, df_detail, written,
                   first_pass_vars, second_pass_vars, query, sheet, folder_vars>>

NextHeaders == ReadDataTabHeaders \/ ReadDataHeaders

SpecHeaders == InitHeaders /\ [][NextHeaders]_vars

(***************************************************************************)
(* The time column of a data tab: read_data_tab of data_model.py builds a  *)
(* timestamp per row, read_data of web_model.py a time of day per row.  A  *)
(* raw row is the "time" cell and the "SB U" cell of a row below the       *)
(* header; a text is the sequence of its characters.                       *)
(***************************************************************************)

\* the number of raw rows of a tab
MaxRawRows == 2

\* a cell that holds a datetime.time, a datetime, a text or a number
TimeCell(minute) == [kind |-> "time", minute |-> minute]
DatetimeCell(minute) == [kind |-> "datetime", minute |-> minute]
TextCell(chars) == [kind |-> "str", chars |-> chars]
NumCell(n) == [kind |-> "num", n |-> n]

\* str.split(sep): the parts of the text between the separators
RECURSIVE split(_, _)
split(chars, sep) ==
    IF chars = <<>> THEN << <<>> >>
    ELSE LET rest == split(Tail(chars), sep)
         IN  IF Head(chars) = sep THEN << <<>> >> \o rest
             ELSE << <<Head(chars)>> \o Head(rest) >> \o Tail(rest)

\* the decimal digits
Digits ==
    ("0" :> 0) @@ ("1" :> 1) @@ ("2" :> 2) @@ ("3" :> 3) @@ ("4" :> 4) @@
    ("5" :> 5) @@ ("6" :> 6) @@ ("7" :> 7) @@ ("8" :> 8) @@ ("9" :> 9)

\* int(text): ValueError unless the text is a run of digits
RECURSIVE int(_)
int(chars) ==
    IF chars = <<>> \/ \E i \in 1..Len(chars) : chars[i] \notin DOMAIN Digits
    THEN [kind |-> "ValueError"]
    ELSE IF Len(chars) = 1 THEN [kind |-> "ok", n |-> Digits[chars[1]]]
    ELSE [kind |-> "ok",
          n |-> int(SubSeq(chars, 1, Len(chars) - 1)).n * 10 + Digits[chars[Len(chars)]]]

\* web_model.py: hour, minute = row.time.split(":"), then
\* time(hour=int(hour), minute=int(minute))
time_of_text(chars) ==
    LET parts == split(chars, ":")
    IN  IF Len(parts) # 2 THEN [kind |-> "ValueError"]
        ELSE LET hour == int(parts[1])
                 minute == int(parts[2])
             IN  IF hour.kind # "ok" \/ minute.kind # "ok" THEN [kind |-> "ValueError"]
                 ELSE IF hour.n >= 24 \/ minute.n >= HourMinutes THEN [kind |-> "ValueError"]
                 ELSE [kind |-> "ok", minute |-> hour.n * HourMinutes + minute.n]

\* the rows left by dropna(subset=['SB U']), with their position in the tab
dropna_SB_U(rows) ==
    SelectSeq([i \in 1..Len(rows) |-> [row |-> i] @@ rows[i]],
              LAMBDA r : r.SB_U.kind # "nan")

\* the rows left by dropna(): no blank cell at all
dropna(rows) ==
    SelectSeq([i \in 1..Len(rows) |-> [row |-> i] @@ rows[i]],
              LAMBDA r : r.SB_U.kind # "nan" /\ r.time.kind # "nan")

\* datetime.combine(date, time): TypeError unless time is a datetime.time
combine(date, cell) ==
    IF cell.kind = "time"
    THEN [kind |-> "ok", date |-> date, minute |-> cell.minute]
    ELSE [kind |-> "TypeError"]

\* data_model.py: the try/except around datetime.time(row.time), the time of
\* day of a datetime; any other cell raises and is kept as it is
time_of_cell(cell) ==
    IF cell.kind = "datetime" THEN TimeCell(cell.minute) ELSE cell

\* data_model.py: one round of "for idx, row in df.iterrows()"
read_data_tab_row(acc, r) ==
    IF acc.kind # "ok" THEN acc
    ELSE LET stamp == combine("self.date", time_of_cell(r.time))
         IN  IF stamp.kind # "ok" THEN [acc EXCEPT !.kind = stamp.kind]
             ELSE [acc EXCEPT !.index = Append(@, [row |-> r.row, date |-> stamp.date,
                                                   minute |-> stamp.minute])]

\* data_model.py: the "datetime" column that read_data_tab builds from the
\* rows that dropna left
RECURSIVE read_data_tab_datetime(_)
read_data_tab_datetime(df) ==
    IF df = <<>> THEN [kind |-> "ok", index |-> <<>>]
    ELSE read_data_tab_row(read_data_tab_datetime(SubSeq(df, 1, Len(df) - 1)), df[Len(df)])

\* web_model.py: one round of "for idx, row in df.iterrows()"; a cell that
\* is not a datetime.time is taken for text, and a datetime or a number has
\* no split()
read_data_row(acc, r) ==
    IF acc.kind # "ok" THEN acc
    ELSE IF r.time.kind = "time"
    THEN [acc EXCEPT !.index = Append(@, [row |-> r.row, minute |-> r.time.minute])]
    ELSE IF r.time.kind # "str" THEN [acc EXCEPT !.kind = "AttributeError"]
    ELSE LET t == time_of_text(r.time.chars)
         IN  IF t.kind # "ok" THEN [acc EXCEPT !.kind = t.kind]
             ELSE [acc EXCEPT !.index = Append(@, [row |-> r.row, minute |-> t.minute])]

\* web_model.py: the "time" column that read_data builds from the rows that
\* dropna left
RECURSIVE read_data_time(_)
read_data_time(df) ==
    IF df = <<>> THEN [kind |-> "ok", index |-> <<>>]
    ELSE read_data_row(read_data_time(SubSeq(df, 1, Len(df) - 1)), df[Len(df)])

\* the clock times 7:15 and 12:15 and their texts
QuarterPastSeven == 7 * HourMinutes + Quarter
QuarterPastNoon == Noon + Quarter
Text_7_15 == <<"7", ":", "1", "5">>
Text_12_15 == <<"1", "2", ":", "1", "5">>
Text_Total == <<"T", "o", "t", "a", "l">>

\* what the "time" column of a raw row can hold: a time, a datetime, the
\* text of a time, another text, or nothing
RawTimes ==
    {TimeCell(QuarterPastSeven), TimeCell(QuarterPastNoon), DatetimeCell(QuarterPastSeven),
     TextCell(Text_7_15), TextCell(Text_12_15), TextCell(Text_Total), Blank}

\* what the "SB U" column of a raw row can hold: a count or nothing
RawCounts == {NumCell(1), Blank}

RawRows == [time : RawTimes, SB_U : RawCounts]

\* a tab whose rows are about to be read
InitRead ==
    /\ \E n \in 1..MaxRawRows : sheet \in [1..n -> RawRows]
    /\ files = <<>>
    /\ pc = "rows"
    /\ out = NoOut
    /\ InitCommon

\* data_model.py, read_data_tab up to df.set_index("datetime")
ReadDataTab ==
    /\ pc = "rows"
    /\ out' = [by |-> "data_model"] @@ read_data_tab_datetime(dropna_SB_U(sheet))
    /\ pc' = IF out'.kind = "ok" THEN "indexed" ELSE "error"
    /\ err' = IF out'.kind = "ok" THEN err ELSE out'.kind
    /\ UNCHANGED <<files, network, df_meta, df_detail, written,
                   first_pass_vars, second_pass_vars, query, sheet, folder_vars>>

\* web_model.py, read_data up to df.set_index("time")
ReadData ==
    /\ pc = "rows"
    /\ out' = [by |-> "web_model"] @@ read_data_time(dropna(sheet))
    /\ pc' = IF out'.kind = "ok" THEN "indexed" ELSE "error"
    /\ err' = IF out'.kind = "ok" THEN err ELSE out'.kind
    /\ UNCHANGED <<files, network, df_meta, df_detail, written,
                   first_pass_vars, second_pass_vars, query, sheet, folder_vars>>

NextRead == ReadDataTab \/ ReadData

SpecRead == InitRead /\ [][NextRead]_vars

(***************************************************************************)
(* files_to_process of summarize.py: the .xls files of the folder, from    *)
(* which the loop removes the badly named ones while it iterates over the  *)
(* same list.  A file name is the sequence of its characters.              *)
(***************************************************************************)

\* the number of files in the folder
MaxFiles == 3

\* a name with the extension .xls
Xls(stem) == stem \o <<".", "x", "l", "s">>

\* folder.glob("**/*.xls"): the name ends in .xls
IsXls(name) == Len(name) >= 4 /\ SubSeq(name, Len(name) - 3, Len(name)) = Xls(<<>>)

\* "_" in str(f.name)
HasUnderscore(name) == \E k \in 1..Len(name) : name[k] = "_"

\* the names a folder can hold: two well-named files, two whose text before
\* the underscore is not a number, one without underscore, one that is not
\* an .xls file
FolderNames ==
    {Xls(<<"1", "_", "a">>), Xls(<<"2", "_", "b">>),
     Xls(<<"x", "_", "c">>), Xls(<<"y", "_", "d">>),
     Xls(<<"e">>), <<"3", "_", "f", ".", "t", "x", "t">>}

\* list.remove(f): the list without the first element equal to f, or
\* ValueError when there is none
remove(list, f) ==
    IF \A k \in 1..Len(list) : list[k] # f THEN [kind |-> "ValueError", list |-> list]
    ELSE LET k == CHOOSE j \in 1..Len(list) :
                     list[j] = f /\ \A m \in 1..(j - 1) : list[m] # f
         IN  [kind |-> "ok", list |-> SubSeq(list, 1, k - 1) \o SubSeq(list, k + 1, Len(list))]

\* print(f"No underscores, skipping {f.name}") and
\* print(f"Bad Location ID, skipping {f.name}")
Skipping(why, name) == [why |-> why, name |-> name]

\* the body of "for f in files" for the element f: the underscore test with
\* its remove, then the integer test with its remove, which raises when the
\* first remove has already taken f out of the list
files_to_process_body(list, printed, f) ==
    LET no_us   == ~HasUnderscore(f)
        list1   == IF no_us THEN remove(list, f).list ELSE list
        printed1 == IF no_us THEN Append(printed, Skipping("No underscores", f)) ELSE printed
        parts   == split(f, "_")
        bad_id  == int(parts[1]).kind = "ValueError"
        second  == remove(list1, f)
    IN  IF ~bad_id THEN [kind |-> "ok", list |-> list1, printed |-> printed1]
        ELSE [kind    |-> second.kind,
              list    |-> second.list,
              printed |-> Append(printed1, Skipping("Bad Location ID", f))]

\* a folder on which files_to_process is about to be called: distinct names
InitFiles ==
    /\ \E n \in 0..MaxFiles : \E names \in [1..n -> FolderNames] :
          /\ \A a, b \in 1..n : a # b => names[a] # names[b]
          /\ folder = names
    /\ listing = NoListing
    /\ files = <<>>
    /\ pc = "glob"
    /\ sheet = NoSheet
    /\ out = NoOut
    /\ InitRun

\* files = list(folder.glob("**/*.xls"))
Glob ==
    /\ pc = "glob"
    /\ listing' = [files |-> SelectSeq(folder, IsXls), i |-> 0, printed |-> <<>>]
    /\ pc' = "loop"
    /\ UNCHANGED <<files, err, network, df_meta, df_detail, written,
                   first_pass_vars, second_pass_vars, reader_vars, folder>>

\* one round of "for f in files": the iterator hands out the element at its
\* position in the list as the list is now, and moves on by one
LoopRound ==
    /\ pc = "loop"
    /\ listing.i < Len(listing.files)
    /\ LET f == listing.files[listing.i + 1]
           r == files_to_process_body(listing.files, listing.printed, f)
       IN  /\ listing' = [files |-> r.list, i |-> listing.i + 1, printed |-> r.printed]
           /\ pc' = IF r.kind = "ok" THEN "loop" ELSE "error"
           /\ err' = IF r.kind = "ok" THEN err ELSE r.kind
    /\ UNCHANGED <<files, network, df_meta, df_detail, written,
                   first_pass_vars, second_pass_vars, reader_vars, folder>>

\* the iterator is past the end of the list: return files
Return ==
    /\ pc = "loop"
    /\ listing.i >= Len(listing.files)
    /\ pc' = "returned"
    /\ UNCHANGED <<files, err, network, df_meta, df_detail, written,
                   first_pass_vars, second_pass_vars, reader_vars, folder_vars>>

NextFiles == Glob \/ LoopRound \/ Return

SpecFiles == InitFiles /\ [][NextFiles]_vars

----------------------------------------------------------------------------
(* Properties.  The helpers below restate sums, maxima and day-parts over   *)
(* index sets, independently of the operators that model the code.          *)

RECURSIVE SumOver(_, _, _)
SumOver(S, rows, c) ==
    IF S = {} THEN 0
    ELSE LET j == CHOOSE k \in S : TRUE
         IN  rows[j][c] + SumOver(S \ {j}, rows, c)

Idx(rows) == 1..Len(rows)

\* the rows with a timestamp in [from, to)
IdxBetween(rows, from, to) == {j \in Idx(rows) : from <= rows[j].time /\ rows[j].time < to}

\* the rows of a day-part: AM strictly before 12:00, PM at 12:00 or later
IdxOfPart(rows, part) ==
    {j \in Idx(rows) : IF part = "AM" THEN rows[j].time < Noon ELSE rows[j].time >= Noon}

\* the day-part a period text names, whatever its case
PartNamed(period) ==
    IF period \in {"AM", "am", "Am", "aM"} THEN "AM"
    ELSE IF period \in {"PM", "pm", "Pm", "pM"} THEN "PM"
    ELSE "neither"

StrictlyOrdered(rows) == \A j \in Idx(rows) : j > 1 => rows[j - 1].time < rows[j].time

\* the TMCs built from the scenario file
IsScenario(i) == files[i].tab = ScenarioTab

C2_PeakHour ==
    pc = "tested" =>
        LET rows == all_tmcs[1].df_total.rows
            part == PartNamed(query.period)
            P    == IdxOfPart(rows, part)
        IN  /\ part \in {"AM", "PM"} => query.kind = "ok"
            /\ query.kind = "ok" =>
                 /\ part \in {"AM", "PM"}
                 /\ query.end - query.start = 60
                 /\ \E i \in P :
                      /\ \A j \in P : rows[j].total_hourly <= rows[i].total_hourly
                      /\ query.end = rows[i].time + 15
                      /\ query.start = rows[i].time + 15 - 60

\* a lower-case AM query on a file whose 12:00 row holds the largest hourly
\* total of the whole day
C2_Witness ==
    /\ pc = "tested"
    /\ query.period = "am"
    /\ query.kind = "ok"
    /\ LET rows == all_tmcs[1].df_total.rows
       IN  \E i \in Idx(rows) :
              /\ rows[i].time = Noon
              /\ \A j \in Idx(rows) : j # i => rows[j].total_hourly < rows[i].total_hourly

Frames(tmc) == {tmc.df_total, tmc.df_cars, tmc.df_heavy}

\* C3: once the site is loaded (add_hourly_totals has run on every tab, and
\* the frames do not change afterwards) every row with timestamp t holds in
\* total_hourly the sum of total_15_min over exactly the rows of its series
\* with a timestamp in [t - 45 min, t + 15 min); in the first 45 minutes of a
\* series that is the sum of the rows that exist, and nothing fails.
C3_HourlyWindow ==
    pc = "test" =>
        \A n \in Idx(all_tmcs) : \A df \in Frames(all_tmcs[n]) :
            \A i \in Idx(df.rows) :
                df.rows[i].total_hourly =
                    SumOver(IdxBetween(df.rows, df.rows[i].time - 45, df.rows[i].time + 15),
                            df.rows, "total_15_min")

\* a series whose first row has nothing before it and a count of its own,
\* and whose last row has three counted rows in the hour before it
C3_Witness ==
    /\ pc = "test"
    /\ LET rows == all_tmcs[1].df_total.rows
       IN  /\ Len(rows) = 4
           /\ StrictlyOrdered(rows)
           /\ rows[1].total_15_min = 1
           /\ rows[1].total_hourly = 1
           /\ rows[4].time - rows[1].time = 45
           /\ rows[4].total_hourly = 4

\* the rows at one timestamp
IdxAt(rows, t) == {j \in Idx(rows) : rows[j].time = t}

\* the (up to four) rows that end at row i, by position
Last4(i) == {j \in 1..i : j >= i - 3}

\* C4, as stated: in a series of at least 4 rows, total_hourly of every row is
\* the sum of total_15_min over the 4 rows ending at it (the row and the
\* three before it).  Stated for series in strict time order, so that what
\* refutes it is a gap in the series and not the order of its rows; for the
\* first three rows the rows that exist are taken.
C4_Original ==
    \A n \in Idx(all_tmcs) :
        LET rows == all_tmcs[n].df_total.rows
        IN  (Len(rows) >= 4 /\ StrictlyOrdered(rows)) =>
               \A i \in Idx(rows) :
                   rows[i].total_hourly = SumOver(Last4(i), rows, "total_15_min")

\* row i and the three rows before it are the rows at t, t-15, t-30 and t-45,
\* and no other row of the series repeats one of these timestamps
FullHourBefore(rows, i) ==
    /\ i >= 4
    /\ \A k \in 1..3 : rows[i - k].time = rows[i].time - (15 * k)
    /\ \A j \in Idx(rows) \ Last4(i) : \A k \in 0..3 : rows[j].time # rows[i].time - (15 * k)

\* C4, amended: once the site is loaded (the frames do not change
\* afterwards), total_hourly of a row at t is the sum of total_15_min over the
\* rows present at the quarter-hours t-45, t-30, t-15 and t; it is the sum
\* over the row and the three rows before it when those are the rows at
\* t-15, t-30 and t-45 and no other row repeats one of the four timestamps.
C4_Amended ==
    pc = "test" => \A n \in Idx(all_tmcs) :
        LET rows == all_tmcs[n].df_total.rows
        IN  \A i \in Idx(rows) :
               /\ rows[i].total_hourly =
                     SumOver(IdxAt(rows, rows[i].time - 45), rows, "total_15_min")
                   + SumOver(IdxAt(rows, rows[i].time - 30), rows, "total_15_min")
                   + SumOver(IdxAt(rows, rows[i].time - 15), rows, "total_15_min")
                   + SumOver(IdxAt(rows, rows[i].time), rows, "total_15_min")
               /\ FullHourBefore(rows, i) =>
                     rows[i].total_hourly =
                         rows[i - 3].total_15_min + rows[i - 2].total_15_min
                       + rows[i - 1].total_15_min + rows[i].total_15_min

\* a row with a full hour of counted rows before it
C4_Witness ==
    \E n \in Idx(all_tmcs) :
        LET rows == all_tmcs[n].df_total.rows
        IN  \E i \in Idx(rows) :
               /\ FullHourBefore(rows, i)
               /\ rows[i - 3].total_15_min = 1
               /\ rows[i].total_15_min = 1
               /\ rows[i].total_hourly >= 3

\* the rows of a day-part that hold the largest total_hourly of that part
TiedAtMax(rows, part) ==
    {i \in IdxOfPart(rows, part) :
        \A j \in IdxOfPart(rows, part) : rows[j].total_hourly <= rows[i].total_hourly}

\* C5: when several rows of a day-part tie for the largest rolling hourly
\* total, the window returned is the earliest of the tied windows.
C5_EarliestTied ==
    \A n \in Idx(all_tmcs) :
        LET rows == all_tmcs[n].df_total.rows
            am   == all_tmcs[n].am_peak_raw
            pm   == all_tmcs[n].pm_peak_raw
        IN  /\ \A i \in TiedAtMax(rows, "AM") : am[2] <= rows[i].time + 15
            /\ \A i \in TiedAtMax(rows, "PM") : pm[2] <= rows[i].time + 15

\* the run has derived the network peak hour
NetworkKnown == network # NoNetwork

\* the per-site peak start times of the batch, seconds since midnight
SiteStartSeconds(period) ==
    [i \in Idx(all_tmcs) |->
        60 * TimeOf(IF period = "AM" THEN all_tmcs[i].am_peak_raw[1]
                    ELSE all_tmcs[i].pm_peak_raw[1])]

\* C6: for each day-part the window used to re-slice every site starts at the
\* median of all sites' peak start times (seconds since midnight, the mean of
\* the two middle values for an even number of sites) and ends 60 minutes
\* later, whatever the order of the files.
C6_MedianWindow ==
    NetworkKnown =>
        /\ 60 * am_window(network)[1] = median(SiteStartSeconds("AM"))
        /\ 60 * am_window(network)[2] = median(SiteStartSeconds("AM")) + 3600
        /\ 60 * pm_window(network)[1] = median(SiteStartSeconds("PM"))
        /\ 60 * pm_window(network)[2] = median(SiteStartSeconds("PM")) + 3600

\* the one clock window [S, S + 60 min) of a day-part
SharedWindow(period) ==
    LET S == TimeOf(IF period = "AM" THEN network.am_network_peak_start_time
                    ELSE network.pm_network_peak_start_time)
    IN  <<S, (S + 60) % MinutesPerDay>>

\* the rows of a frame inside the shared window
IdxInShared(df, period) ==
    {j \in Idx(df.rows) : /\ SharedWindow(period)[1] <= TimeOf(df.rows[j].time)
                          /\ TimeOf(df.rows[j].time) < SharedWindow(period)[2]}

\* the last TMC with this id that the second pass has stored
StoredAs(i) ==
    /\ i <= pass2
    /\ \A j \in (i + 1)..pass2 : all_tmcs[j].location_id # all_tmcs[i].location_id

\* C7: in one batch, for each day-part, the total, cars and heavy series of
\* every site are sliced with one and the same clock window [S, S + 60 min),
\* never with the site's own peak window; the stored sums are the sums over
\* that window.
C7_SameWindow ==
    /\ \A k \in DOMAIN tmc_dfs.am_dict : tmc_dfs.am_dict[k].window = SharedWindow("AM")
    /\ \A k \in DOMAIN tmc_dfs.pm_dict : tmc_dfs.pm_dict[k].window = SharedWindow("PM")
    /\ \A k \in DOMAIN car_dfs.am_dict : car_dfs.am_dict[k].window = SharedWindow("AM")
    /\ \A k \in DOMAIN car_dfs.pm_dict : car_dfs.pm_dict[k].window = SharedWindow("PM")
    /\ \A k \in DOMAIN heavy_vehicle_for_bikes_dfs.am_dict :
          heavy_vehicle_for_bikes_dfs.am_dict[k].window = SharedWindow("AM")
    /\ \A k \in DOMAIN heavy_vehicle_for_bikes_dfs.pm_dict :
          heavy_vehicle_for_bikes_dfs.pm_dict[k].window = SharedWindow("PM")
    /\ pc # "error" =>
         \A i \in Idx(all_tmcs) : StoredAs(i) =>
            LET tmc == all_tmcs[i]
                k   == tmc.location_id
            IN  /\ tmc_dfs.am_dict[k].total_15_min =
                      SumOver(IdxInShared(tmc.df_total, "AM"), tmc.df_total.rows, "total_15_min")
                /\ tmc_dfs.pm_dict[k].total_15_min =
                      SumOver(IdxInShared(tmc.df_total, "PM"), tmc.df_total.rows, "total_15_min")
                /\ car_dfs.am_dict[k].total_15_min =
                      SumOver(IdxInShared(tmc.df_cars, "AM"), tmc.df_cars.rows, "total_15_min")
                /\ car_dfs.pm_dict[k].total_15_min =
                      SumOver(IdxInShared(tmc.df_cars, "PM"), tmc.df_cars.rows, "total_15_min")
                /\ heavy_vehicle_for_bikes_dfs.am_dict[k].total_15_min =
                      SumOver(IdxInShared(tmc.df_heavy, "AM"), tmc.df_heavy.rows, "total_15_min")
                /\ heavy_vehicle_for_bikes_dfs.pm_dict[k].total_15_min =
                      SumOver(IdxInShared(tmc.df_heavy, "PM"), tmc.df_heavy.rows, "total_15_min")

\* a finished second pass over two sites whose own peak windows differ in
\* both day-parts and whose cars and heavy counts inside the shared windows
\* are not zero
C7_Witness ==
    /\ pc = "detail"
    /\ Len(all_tmcs) = 2
    /\ all_tmcs[1].am_peak_raw # all_tmcs[2].am_peak_raw
    /\ all_tmcs[1].pm_peak_raw # all_tmcs[2].pm_peak_raw
    /\ \A i \in 1..2 :
          /\ car_dfs.am_dict[all_tmcs[i].location_id].total_15_min > 0
          /\ heavy_vehicle_for_bikes_dfs.pm_dict[all_tmcs[i].location_id].total_15_min > 0

\* the largest total_15_min among the rows of a site inside the shared window
\* (0 when there is none)
MaxInShared(df, period) ==
    IF IdxInShared(df, period) = {} THEN 0
    ELSE LET i == CHOOSE k \in IdxInShared(df, period) :
                    \A j \in IdxInShared(df, period) :
                        df.rows[j].total_15_min <= df.rows[k].total_15_min
         IN  df.rows[i].total_15_min

VolumeInShared(df, period) ==
    SumOver(IdxInShared(df, period), df.rows, "total_15_min")

Factor(i, period) ==
    IF period = "AM" THEN peak_hr_factors.am_dict[all_tmcs[i].location_id]
    ELSE peak_hr_factors.pm_dict[all_tmcs[i].location_id]

\* C8: for each site and shared window the reported peak-hour factor is the
\* sum of the quarter-hours inside the window (the rolling hourly total at
\* the window's end) divided by 4 times the largest total_15_min of the
\* window.
C8_FactorOfWindow ==
    \A i \in Idx(all_tmcs) : \A period \in {"AM", "PM"} :
        (StoredAs(i) /\ MaxInShared(all_tmcs[i].df_total, period) > 0) =>
            /\ Factor(i, period).kind = "num"
            /\ Factor(i, period).num * (4 * MaxInShared(all_tmcs[i].df_total, period))
                 = VolumeInShared(all_tmcs[i].df_total, period) * Factor(i, period).den

\* C9: every peak-hour factor of a site and a window with non-zero volume
\* lies in (0, 1].
C9_FactorInUnitInterval ==
    \A i \in Idx(all_tmcs) : \A period \in {"AM", "PM"} :
        (StoredAs(i) /\ VolumeInShared(all_tmcs[i].df_total, period) > 0) =>
            /\ Factor(i, period).kind = "num"
            /\ 0 < Factor(i, period).num
            /\ Factor(i, period).num <= Factor(i, period).den

\* C10: when every total_15_min of the window is 0 the peak-hour factor is a
\* defined sentinel (0, or a marker set on purpose), and nothing is raised.
C10_ZeroWindowSentinel ==
    \A i \in Idx(all_tmcs) : \A period \in {"AM", "PM"} :
        (/\ StoredAs(i)
         /\ IdxInShared(all_tmcs[i].df_total, period) # {}
         /\ MaxInShared(all_tmcs[i].df_total, period) = 0) =>
            \/ Factor(i, period).kind = "num" /\ Factor(i, period).num = 0
            \/ Factor(i, period).kind = "undefined"

----------------------------------------------------------------------------
(* Percent heavy, the Detail table and the fate of a run *)

IsZero(v) == v.kind = "num" /\ v.num = 0

\* the frames of one site and day-part among the frames of the first pass
FrameOf(site, period, dtype) ==
    {i \in Idx(detailed_data) : /\ detailed_data[i].site = site
                                /\ detailed_data[i].period = period
                                /\ detailed_data[i].dtype = dtype}

\* C11: for any movement and window whose total count is 0 (the light count
\* then is 0 too) the percent-heavy value reported is 0, not an error and not
\* NaN, in the per-site peak rows and in the network-window rows.
C11_ZeroTotalZeroPct ==
    /\ \A site \in Idx(all_tmcs) : \A period \in {"am", "pm"} :
         \A i \in FrameOf(site, period, "total") : \A j \in FrameOf(site, period, "heavy_pct") :
           \A c \in DOMAIN detailed_data[i].cells :
              IsZero(detailed_data[i].cells[c]) => IsZero(detailed_data[j].cells[c])
    /\ \A time \in {"am", "pm"} :
         \A key \in (DOMAIN TimeDict(heavy_vehicle_dfs, time)) \cap (DOMAIN TimeDict(tmc_dfs, time)) :
           \A c \in (DOMAIN TimeDict(tmc_dfs, time)[key]) \ {"window"} :
              TimeDict(tmc_dfs, time)[key][c] = 0 =>
                  IsZero(TimeDict(heavy_vehicle_dfs, time)[key][c])

\* the Detail table has been brought to its final form
FinalDetail == pc \in {"write", "geocode", "done"} \/ (pc = "error" /\ written # {})

\* the day-part a Detail row belongs to
PartOf(row) == IF row.period = "am" THEN "AM" ELSE "PM"

\* the sum of a crosswalk column of one tab of a file over the shared window
CrossingsInShared(tab, column, period) ==
    LET df == read_data_tab(tab)
    IN  SumOver(IdxInShared(df, period), df.rows, column)

\* C12: in the final Detail rows, for every site and day-part, the 'total'
\* row's Peds Xwalk value is the sum over the shared window of that column in
\* the site's cars series, its Bikes Xwalk value is the sum over the shared
\* window of that column in the site's heavy series, and on the 'heavy_pct'
\* row both values are 0.
C12_CrossingsMerged ==
    FinalDetail =>
        \A i \in Idx(df_detail) :
            LET row  == df_detail[i]
                file == files[row.site]
            IN  IF row.dtype = "total"
                THEN /\ row.cells["EB_Peds_Xwalk"] =
                          Num(CrossingsInShared(file.Cars, "EB_Peds_Xwalk", PartOf(row)))
                     /\ row.cells["EB_Bikes_Xwalk"] =
                          Num(CrossingsInShared(file.Heavy, "EB_Bikes_Xwalk", PartOf(row)))
                ELSE /\ row.cells["EB_Peds_Xwalk"] = Num(0)
                     /\ row.cells["EB_Bikes_Xwalk"] = Num(0)

\* the TOTAL tab of the file under test has no row in the day-part
EmptyPart(part) == IdxOfPart(files[1].TOTAL, part) = {}

\* C13: when a site's series has no rows in the requested day-part the peak
\* window selector reports the condition and produces no PeakWindow; it does
\* not raise an error.
C13_EmptyPartReported ==
    pc # "setUpClass" =>
        \A part \in {"AM", "PM"} :
            EmptyPart(part) =>
                /\ get_peak_hour(read_data_tab(files[1].TOTAL), part).kind = "None"
                /\ pc # "error"

\* a recoverable condition of the file at position i of the batch: its count
\* never ran in one of the day-parts
Recoverable(i) == \E part \in {"AM", "PM"} : IdxOfPart(files[i].TOTAL, part) = {}

\* the run has ended with an error while the first pass was at file i
AbortedAt(i) == pc = "error" /\ Len(all_tmcs) = i - 1 /\ i <= Len(files)

\* C14: a recoverable condition in one site never aborts the batch:
\* write_summary_file goes on to the other sites of the batch.
C14_BatchSurvives ==
    \A i \in Idx(files) : Recoverable(i) => ~AbortedAt(i)

\* the run has ended with an error
Failed == pc = "error"

\* C15: a batch run is atomic with respect to output: when write_summary_file
\* ends with an error, no output file (summary workbook or location file) has
\* been written.
C15_NoOutputOnFailure ==
    Failed => written = {}

\* the rows of a table that belong to the file at position site
RowsOfSite(table, site) == {i \in Idx(table) : table[i].site = site}

\* C16: after write_summary_file has processed a batch of N site files the
\* Detail table holds exactly 4 rows per site, one for each combination of
\* period in {am, pm} and dtype in {total, heavy_pct}, and the Summary table
\* holds exactly one row per site.
C16_RowsPerSite ==
    (df_detail # <<>> \/ df_meta # <<>>) =>
        /\ Len(df_detail) = 4 * Len(files)
        /\ Len(df_meta) = Len(files)
        /\ \A site \in Idx(files) :
              /\ Cardinality(RowsOfSite(df_meta, site)) = 1
              /\ Cardinality(RowsOfSite(df_detail, site)) = 4
              /\ \A period \in {"am", "pm"} : \A dtype \in {"total", "heavy_pct"} :
                    Cardinality({i \in RowsOfSite(df_detail, site) :
                                    /\ df_detail[i].period = period
                                    /\ df_detail[i].dtype = dtype}) = 1

\* a finished run over three files, two of them with the same location id
C16_Witness ==
    /\ pc = "done"
    /\ Len(files) = 3
    /\ files[2].location_id = files[3].location_id
    /\ Len(df_detail) = 12
    /\ Len(df_meta) = 3

\* the movement table of the normaliser that produced out
LookupOf(by) ==
    IF by = "data_model" THEN TMC_File_replacements_level_2 ELSE replacements_level_2

\* the text cells of header row 1
DirectionTexts == {sheet[j].level_1.s : j \in {k \in 1..Len(sheet) : ~isna(sheet[k].level_1)}}

\* the direction prefixes a name of this sheet can carry
Prefixes ==
    {""} \cup {TMC_File_replacements_level_1[d] : d \in DOMAIN TMC_File_replacements_level_1}
         \cup DirectionTexts

\* some warning names the label
Warned(label) == \E i \in 1..Len(out.warnings) : out.warnings[i].label = label

\* the name of column j is a prefix joined with the canonical movement name,
\* or with the raw label when a warning was given for it
NameOfColumn(j) ==
    LET raw == sheet[j].level_2.s
    IN  \E prefix \in Prefixes :
           IF lower(raw) \in DOMAIN LookupOf(out.by)
           THEN out.headers[j] = prefix \o LookupOf(out.by)[lower(raw)]
           ELSE out.headers[j] = prefix \o raw /\ Warned(raw)

\* C17: for every header of a data tab the normaliser returns as many names
\* as the tab has columns, in column order, each a direction prefix joined
\* with the canonical movement name or with the raw label (with a warning)
\* when the label is not in the lookup; no name is blank, no column dropped.
C17_HeaderNames ==
    out # NoOut =>
        /\ out.kind = "ok"
        /\ Len(out.headers) = Len(sheet)
        /\ \A j \in 1..Len(sheet) : out.headers[j] # "" /\ NameOfColumn(j)

\* every direction of the sheet is in the table and every movement cell is text
KnownHeader ==
    \A j \in 1..Len(sheet) :
        /\ ~isna(sheet[j].level_2)
        /\ isna(sheet[j].level_1) \/ sheet[j].level_1.s \in DOMAIN TMC_File_replacements_level_1

\* C17, for the headers whose directions are known and whose movement cells
\* are text
C17_KnownHeaderNames ==
    (out # NoOut /\ KnownHeader) =>
        /\ out.kind = "ok"
        /\ Len(out.headers) = Len(sheet)
        /\ \A j \in 1..Len(sheet) : out.headers[j] # "" /\ NameOfColumn(j)

\* the direction cell that column j stands under: its own, or the nearest
\* text cell to its left
Carried(j) ==
    LET ks == {k \in 1..j : ~isna(sheet[k].level_1)}
    IN  IF ks = {} THEN Blank
        ELSE sheet[CHOOSE k \in ks : \A m \in ks : m <= k].level_1

\* the columns that stand under a direction label that is not in the table
UnknownDirectionColumns ==
    {j \in 1..Len(sheet) :
        ~isna(Carried(j)) /\ Carried(j).s \notin DOMAIN TMC_File_replacements_level_1}

\* every movement cell of the sheet is text
TextMovements == \A j \in 1..Len(sheet) : ~isna(sheet[j].level_2)

\* the words of the warnings given for movement labels
MovementLookups ==
    {out.warnings[i].lookup :
        i \in {k \in 1..Len(out.warnings) :
                 \E j \in 1..Len(sheet) : out.warnings[k].label = sheet[j].level_2.s}}

\* the raw direction is the prefix of the name of column j
RawPrefix(j) ==
    LET raw == sheet[j].level_2.s
    IN  out.headers[j] = Carried(j).s \o
            (IF lower(raw) \in DOMAIN LookupOf(out.by)
             THEN LookupOf(out.by)[lower(raw)] ELSE raw)

\* the direction was warned about, in words no movement warning uses
DirectionWarned(j) ==
    \E i \in 1..Len(out.warnings) :
        /\ out.warnings[i].label = Carried(j).s
        /\ out.warnings[i].lookup \notin MovementLookups

\* C18: when a level-1 cell holds a direction that is not in the direction
\* table the normaliser does not raise: the raw direction text is the prefix
\* of that column and of the following ones, and a warning is given that is
\* distinguishable from the warning for an unrecognised movement label.
C18_UnknownDirection ==
    (out # NoOut /\ TextMovements /\ UnknownDirectionColumns # {}) =>
        /\ out.kind = "ok"
        /\ \A j \in UnknownDirectionColumns : RawPrefix(j) /\ DirectionWarned(j)

\* C18 for flatten_headers of business_logic.py alone
C18_BusinessLogic ==
    (out # NoOut /\ out.by = "business_logic") => C18_UnknownDirection

\* the clock time that the text of a "time" cell stands for
ClockOfText(chars) ==
    IF chars = Text_7_15 THEN QuarterPastSeven
    ELSE IF chars = Text_12_15 THEN QuarterPastNoon
    ELSE -1

\* the rows of the sheet with a count whose time is structured, and those
\* whose time is the text of a clock time
StructuredRows ==
    {i \in 1..Len(sheet) : sheet[i].SB_U.kind # "nan" /\ sheet[i].time.kind \in {"time", "datetime"}}
ClockTextRows ==
    {i \in 1..Len(sheet) :
        /\ sheet[i].SB_U.kind # "nan"
        /\ sheet[i].time.kind = "str"
        /\ ClockOfText(sheet[i].time.chars) >= 0}

\* the index entries that came from row i of the sheet
EntriesOf(i) == {k \in 1..Len(out.index) : out.index[k].row = i}

\* the index entry of row i, its origin left out: the timestamp or time
StampOf(i) ==
    LET e == out.index[CHOOSE k \in EntriesOf(i) : TRUE]
    IN  [f \in DOMAIN e \ {"row"} |-> e[f]]

\* C19: a row whose time of day is a structured time value and a row whose
\* time of day is the text 'H:MM' of the same clock time produce the same
\* timestamp when the interval table of a site is built.
C19_TextTimeSameStamp ==
    \A i \in StructuredRows : \A j \in ClockTextRows :
        (out # NoOut /\ sheet[i].time.minute = ClockOfText(sheet[j].time.chars)) =>
            /\ out.kind = "ok"
            /\ EntriesOf(i) # {} /\ EntriesOf(j) # {}
            /\ StampOf(i) = StampOf(j)
            /\ StampOf(i).minute = sheet[i].time.minute

\* C19 for read_data of web_model.py alone, where every structured time is a
\* datetime.time
C19_WebModel ==
    (/\ out # NoOut
     /\ out.by = "web_model"
     /\ \A i \in 1..Len(sheet) :
           \/ sheet[i].time.kind = "time"
           \/ sheet[i].time.kind = "str" /\ ClockOfText(sheet[i].time.chars) >= 0)
    => C19_TextTimeSameStamp

\* row i of the sheet yields a timestamp: its time is structured
YieldsTimestamp(i) == sheet[i].time.kind \in {"time", "datetime"}

\* no row of the sheet holds the text of a clock time
NoClockText ==
    \A i \in 1..Len(sheet) :
        sheet[i].time.kind = "str" => ClockOfText(sheet[i].time.chars) < 0

\* C20: a raw row that does not yield a valid timestamp (a blank, footer or
\* noise row, an unparsable time value) is dropped from the series, and the
\* load of the remaining rows completes without a fatal error.
C20_BadRowsDropped ==
    (out # NoOut /\ NoClockText) =>
        /\ out.kind = "ok"
        /\ \A i \in 1..Len(sheet) : ~YieldsTimestamp(i) => EntriesOf(i) = {}

\* C20 for the rows that hold no count: read_data_tab drops them whatever
\* their time cell holds
C20_BlankRowsDropped ==
    (out # NoOut /\ out.by = "data_model" /\ out.kind = "ok") =>
        \A i \in 1..Len(sheet) : sheet[i].SB_U.kind = "nan" => EntriesOf(i) = {}

\* C21: every series that read_data_tab returns is strictly ordered by
\* timestamp, with no two rows at the same timestamp, whatever the order and
\* content of the raw rows.
C21_SeriesStrictlyOrdered ==
    pc = "test" => \A df \in Frames(all_tmcs[1]) : StrictlyOrdered(df.rows)

\* C21 for the tabs whose raw rows are already in strictly increasing order
\* of time: read_data_tab keeps the order of the file
C21_OrderKept ==
    (pc = "test" /\ StrictlyOrdered(files[1].TOTAL)) =>
        \A df \in Frames(all_tmcs[1]) : StrictlyOrdered(df.rows)

\* the three naming criteria of files_to_process
MeetsCriteria(name) ==
    /\ IsXls(name)
    /\ HasUnderscore(name)
    /\ int(split(name, "_")[1]).kind = "ok"

\* the names of a list
Names(list) == {list[k] : k \in 1..Len(list)}

\* C22: every file in the list that files_to_process returns meets all three
\* naming criteria (ends in .xls, has an underscore, the text before the first
\* underscore converts to an integer), for every set and order of files in the
\* folder, several non-conforming files in a row included.
C22_ReturnedFilesConform ==
    pc = "returned" => \A name \in Names(listing.files) : MeetsCriteria(name)

\* C22 for the folders in which no badly named .xls file comes right after
\* another one
NoTwoBadInARow ==
    LET xls == SelectSeq(folder, IsXls)
    IN  \A k \in 1..(Len(xls) - 1) : MeetsCriteria(xls[k]) \/ MeetsCriteria(xls[k + 1])

C22_ApartFilesConform ==
    (pc = "returned" /\ NoTwoBadInARow) =>
        \A name \in Names(listing.files) : MeetsCriteria(name)

\* every name of the list has been handed out by the iterator
Examined == listing.i >= Len(SelectSeq(folder, IsXls))

\* C25: files_to_process returns normally for every folder content: an .xls
\* file without underscore, or whose text before the first underscore is not
\* an integer, is skipped with a printed message, the remaining files are
\* still examined, and the call never raises.
C25_NeverRaises ==
    /\ pc \in {"glob", "loop", "returned"}
    /\ pc = "returned" =>
          \A name \in Names(SelectSeq(folder, IsXls)) :
              ~MeetsCriteria(name) =>
                  /\ name \notin Names(listing.files)
                  /\ \E k \in 1..Len(listing.printed) : listing.printed[k].name = name

\* the per-site AM and PM peak windows of every file of the batch are known
AllSitePeaksKnown ==
    /\ Len(all_tmcs) = Len(files)
    /\ Len(am_peak_hour_list) = Len(files)
    /\ Len(pm_peak_hour_list) = Len(files)
    /\ Len(am_peak_hour_times) = Len(files)
    /\ Len(pm_peak_hour_times) = Len(files)

\* nothing has been sliced against the network window yet
NothingSliced ==
    /\ pass2 = 0
    /\ tmc_dfs = EmptyDicts
    /\ car_dfs = EmptyDicts
    /\ heavy_vehicle_for_bikes_dfs = EmptyDicts
    /\ heavy_vehicle_dfs = EmptyDicts
    /\ peak_hr_factors = EmptyDicts

\* C23: write_summary_file slices no site's series against the network
\* window before the per-site AM and PM peak windows of every site of the
\* batch have been computed: the per-site pass over all files completes, then
\* the network windows are derived, then the re-slicing pass runs.
C23_PassesInOrder ==
    [][/\ first_pass_vars' # first_pass_vars /\ pc = "first_pass" =>
            network = NoNetwork /\ NothingSliced
       /\ network' # network =>
            AllSitePeaksKnown /\ NothingSliced
       /\ second_pass_vars' # second_pass_vars =>
            AllSitePeaksKnown /\ network # NoNetwork /\ network' = network]_vars

\* both sites of a batch of two have been sliced against the network window
C23_Witness ==
    /\ Len(files) = 2
    /\ pass2 = 2
    /\ DOMAIN tmc_dfs.am_dict = {1, 2}
    /\ network # NoNetwork

\* C24: the re-slicing pass leaves every site's raw series unchanged: after
\* it each site's total, cars and heavy series have the same row timestamps
\* (date and time) and the same cell values as before.
C24_RawSeriesUnchanged ==
    [][pc = "second_pass" =>
          \A i \in Idx(all_tmcs) :
              /\ all_tmcs'[i].df_total = all_tmcs[i].df_total
              /\ all_tmcs'[i].df_cars = all_tmcs[i].df_cars
              /\ all_tmcs'[i].df_heavy = all_tmcs[i].df_heavy]_vars

\* C24 for the cells alone: the rows keep their order, their time of day and
\* their values
C24_CellsKept ==
    [][pc = "second_pass" =>
          \A i \in Idx(all_tmcs) :
              /\ all_tmcs'[i].df_total.rows = all_tmcs[i].df_total.rows
              /\ all_tmcs'[i].df_cars.rows = all_tmcs[i].df_cars.rows
              /\ all_tmcs'[i].df_heavy.rows = all_tmcs[i].df_heavy.rows]_vars

\* the text "start to end", written in seconds since midnight, names the
\* clock times of the window, written in minutes since midnight
Denotes(text, window) ==
    /\ text[1] % (MinutesPerDay * 60) = window[1] * 60
    /\ text[3] % (MinutesPerDay * 60) = window[2] * 60

\* the window that the second pass slices with, for a period of the tables
WindowUsed(period) == IF period = "am" THEN am_window(network) ELSE pm_window(network)

\* C26: for each day-part the network peak window text written to the
\* Summary and Detail tables (am_network_peak, pm_network_peak, the Detail
\* time field) denotes the start and end clock times of the window that
\* write_summary_file uses to slice every site's series.
C26_TextIsWindowUsed ==
    network # NoNetwork =>
        /\ \A i \in Idx(df_meta) :
              /\ Denotes(df_meta[i].am_network_peak, WindowUsed("am"))
              /\ Denotes(df_meta[i].pm_network_peak, WindowUsed("pm"))
        /\ pc \in {"write", "geocode", "done"} =>
              \A i \in Idx(df_detail) : Denotes(df_detail[i].time, WindowUsed(df_detail[i].period))

\* C26 for a batch of one site, where the median is the site's own start
C26_SingleSite ==
    Len(files) = 1 => C26_TextIsWindowUsed

\* the Detail time field is the Summary text of its period
C26_DetailTimeIsSummaryText ==
    pc \in {"write", "geocode", "done"} =>
        \A i \in Idx(df_detail) : \A j \in Idx(df_meta) :
            df_detail[i].time = (IF df_detail[i].period = "am"
                                 THEN df_meta[j].am_network_peak ELSE df_meta[j].pm_network_peak)

\* the total volume stored for site i and the shared window of the period
VolumeReported(i, period) ==
    IF period = "AM" THEN tmc_dfs.am_dict[all_tmcs[i].location_id].total_15_min
    ELSE tmc_dfs.pm_dict[all_tmcs[i].location_id].total_15_min

\* the factor of site i has been stored
FactorStored(i) ==
    /\ StoredAs(i)
    /\ all_tmcs[i].location_id \in DOMAIN peak_hr_factors.am_dict
    /\ all_tmcs[i].location_id \in DOMAIN peak_hr_factors.pm_dict

\* C27: for every site and day-part the numerator of the network peak-hour
\* factor (total_hourly of the last row of the site's slice of the shared
\* window) equals the total volume reported for that site and window (the sum
\* of total_15_min over the site's rows inside the shared window).
C27_NumeratorIsWindowVolume ==
    \A i \in Idx(all_tmcs) : \A period \in {"AM", "PM"} :
        FactorStored(i) =>
            /\ Factor(i, period).num = VolumeReported(i, period)
            /\ VolumeReported(i, period) = VolumeInShared(all_tmcs[i].df_total, period)

\* C27, the second half alone: the reported volume is the sum over the
\* site's rows inside the shared window
C27_VolumeIsWindowSum ==
    \A i \in Idx(all_tmcs) : \A period \in {"AM", "PM"} :
        FactorStored(i) =>
            VolumeReported(i, period) = VolumeInShared(all_tmcs[i].df_total, period)

\* no two rows of the series stand at the same timestamp
UniqueTimestamps(rows) == \A j, k \in Idx(rows) : j # k => rows[j].time # rows[k].time

\* v is the largest total_hourly among the rows of the day-part
IsMaxHourly(rows, part, v) ==
    \E i \in IdxOfPart(rows, part) :
        /\ rows[i].total_hourly = v
        /\ \A j \in IdxOfPart(rows, part) : rows[j].total_hourly <= v

\* C28: for every site with unique row timestamps and a non-empty day-part
\* the per-site peak volume (the total_15_min sum that df_peak_hour returns
\* for the total series over the window of get_peak_hour) equals the largest
\* total_hourly among the rows of that day-part.
C28_PeakVolumeIsMaxHourly ==
    pc = "test" =>
        LET tmc == all_tmcs[1]
            rows == tmc.df_total.rows
        IN  UniqueTimestamps(rows) =>
               /\ IdxOfPart(rows, "AM") # {} =>
                     IsMaxHourly(rows, "AM", tmc.peak_data.am_total.total_15_min)
               /\ IdxOfPart(rows, "PM") # {} =>
                     IsMaxHourly(rows, "PM", tmc.peak_data.pm_total.total_15_min)

\* a loaded site with unique timestamps whose PM peak hour ends at 12:15 and
\* reaches back before noon, where it counts a morning interval
C28_Witness ==
    /\ pc = "test"
    /\ LET tmc == all_tmcs[1]
           rows == tmc.df_total.rows
       IN  /\ UniqueTimestamps(rows)
           /\ Len(rows) = 4
           /\ tmc.pm_peak_raw[2] = Noon + Quarter
           /\ tmc.peak_data.pm_total.total_15_min = 3
           /\ \E i \in IdxOfPart(rows, "AM") :
                 rows[i].total_15_min = 1 /\ rows[i].time >= tmc.pm_peak_raw[1]
           /\ tmc.peak_data.am_total.total_15_min = 3

\* the run ended with an error in the step that fills the Detail table
FailedAtDetail ==
    /\ pc = "error"
    /\ all_tmcs # <<>>
    /\ pass2 = Len(all_tmcs)
    /\ written = {}

\* the Detail table has been filled
DetailFilled == pc \in {"write", "geocode", "done"}

\* C29: for every non-empty batch of valid site files, whatever integer
\* location ids the files carry, write_summary_file sets the time field of
\* every Detail row of period p to the network peak window text of p and does
\* not fail while doing so.
C29_TimeFieldSet ==
    /\ ~FailedAtDetail
    /\ DetailFilled =>
          \A i \in Idx(df_detail) :
              df_detail[i].time = network_peak_text(network, df_detail[i].period)

\* C29 for the batches in which exactly one file carries the location id 1
C29_IdOneOnce ==
    Cardinality({i \in Idx(files) : files[i].location_id = 1}) = 1 => C29_TimeFieldSet

\* the peak-hour factor of a file's own total series over the shared window
OwnFactor(file, part) ==
    network_peak_hour_factor(
        get_df_peak(read_data_tab(file.TOTAL), SharedWindow(part)[1], SharedWindow(part)[2]))

\* C30: in the final Detail table the movement values, the crossing values
\* and the peak-hour factor of each site's rows are derived from that same
\* site's own series over the shared window, for every batch, a batch in
\* which two files carry the same location id included.
C30_OwnSeries ==
    FinalDetail =>
        \A i \in Idx(df_detail) :
            LET row  == df_detail[i]
                file == files[row.site]
            IN  row.dtype = "total" =>
                   /\ row.cells["EB_Thru"] =
                        Num(CrossingsInShared(file.TOTAL, "EB_Thru", PartOf(row)))
                   /\ row.cells["EB_Peds_Xwalk"] =
                        Num(CrossingsInShared(file.Cars, "EB_Peds_Xwalk", PartOf(row)))
                   /\ row.cells["EB_Bikes_Xwalk"] =
                        Num(CrossingsInShared(file.Heavy, "EB_Bikes_Xwalk", PartOf(row)))
                   /\ row.peak_hour_factor = OwnFactor(file, PartOf(row))

\* the location ids of the batch are pairwise distinct
DistinctIds == \A a, b \in Idx(files) : a # b => files[a].location_id # files[b].location_id

\* C30 for the batches whose location ids are pairwise distinct
C30_DistinctIds == DistinctIds => C30_OwnSeries

====
